---- MODULE Spec2Model ----
(***************************************************************************)
(* The PDF standard security handler of the PostScript-level PDF reader    *)
(* (the pdf_sec.ps part of src/psi/zstack.c, lines 318-1147): the          *)
(* password check for revisions 2..6, pdf_process_Encrypt, computeobjkey,  *)
(* .decpdfrun, pdf_run_resolve and pdf_decrypt_stream.                     *)
(*                                                                         *)
(* A string is a sequence of bytes 0..255.  A PostScript name is a TLA+    *)
(* string; a dictionary key that is not present reads "absent" and a value *)
(* of a type the code rejects reads "wrongtype".                           *)
(***************************************************************************)
EXTENDS Integers, Sequences, FiniteSets, TLC

Byte == 0..255

Min(a, b) == IF a < b THEN a ELSE b

(* <string> <index> <count> getinterval, with the 0-based index of PostScript *)
getinterval(s, index, count) == SubSeq(s, index + 1, index + count)

(* a string with the bytes f[1] .. f[Len(f)], as a tuple *)
Str(f) == f \o <<>>

(* <count> string : a string of null bytes *)
string(n) == Str([i \in 1..n |-> 0])

(***************************************************************************)
(* Hash and cipher filters.  MD5Encode, SHA256Encode, ArcfourDecode and    *)
(* AESDecode are stream filters implemented outside src/; they are stood   *)
(* in for by small deterministic functions with the same shapes: a 16 byte *)
(* and a 32 byte digest of the whole input, a keyed stream transformation  *)
(* that keeps the length, and a keyed block transformation that consumes a *)
(* 16 byte initialisation vector.  The Encode directions are the inverses  *)
(* a PDF producer uses to build O, U, OE, UE and Perms.                    *)
(***************************************************************************)
RECURSIVE Mix(_, _, _)
Mix(s, lo, hi) ==
  IF lo > hi THEN 1
  ELSE IF lo = hi THEN ((s[lo] + 1) * (lo + 7)) % 65521
  ELSE LET mid == (lo + hi) \div 2
       IN  (Mix(s, lo, mid) * 31 + Mix(s, mid + 1, hi) + 1) % 65521

Fold(s, i, seed) == (Mix(s, i, Len(s)) * 17 + seed) % 65521

Digest(s, n, seed) ==
  LET spread(h) == Str([i \in 1..n |-> (h + (h \div 256) * i + 7 * i * i) % 256])
  IN  spread(Fold(s, 1, seed + Len(s)))

(* the MD5Encode filter *)
MD5Encode(s) == Digest(s, 16, 5381)

(* the SHA256Encode filter *)
SHA256Encode(s) == Digest(s, 32, 40503)

(* bitwise exclusive or of two bytes, by nibbles *)
RECURSIVE BitXor(_, _, _)
BitXor(a, b, n) ==
  IF n = 0 THEN 0
  ELSE (((a % 2) + (b % 2)) % 2) + 2 * BitXor(a \div 2, b \div 2, n - 1)

Xor4 == [a \in 0..15, b \in 0..15 |-> BitXor(a, b, 4)]

xor(a, b) == 16 * Xor4[a \div 16, b \div 16] + Xor4[a % 16, b % 16]

(* the ArcfourDecode filter: a key stream xor-ed onto the data *)
ArcfourDecode(data, key) ==
  LET k == Fold(key, 1, 17)
  IN  Str([i \in 1..Len(data) |-> xor(data[i], (k * i + 3 * i + Len(key)) % 256)])

(* the AESDecode filter without padding, in CBC mode: the first 16 bytes  *)
(* of the data are the initialisation vector                               *)
AESDecode(data, key) ==
  LET k == Fold(key, 1, 29)
      n == Len(data) - 16
  IN  IF n <= 0 THEN <<>>
      ELSE Str([i \in 1..n |->
                 xor(xor(data[16 + i], (k * i + 11 * i + Len(key)) % 256), data[i])])

(* the producer's direction for at most two blocks, with a zero IV *)
AESEncode(plain, key) ==
  LET k  == Fold(key, 1, 29)
      c1 == Str([i \in 1..Min(16, Len(plain)) |->
                   xor(plain[i], (k * i + 11 * i + Len(key)) % 256)])
  IN  Str([i \in 1..Len(plain) |->
             IF i <= 16 THEN c1[i]
             ELSE xor(xor(plain[i], c1[i - 16]), (k * i + 11 * i + Len(key)) % 256)])

(***************************************************************************)
(* Optional operators of the build.  .saslprep (libidn) and                *)
(* .locale_to_utf8 (iconv) are implemented outside src/: SASLprep maps the *)
(* soft hyphen U+00AD (C2 AD in UTF-8) to nothing, and the locale is taken *)
(* to be ISO 8859-1.                                                       *)
(***************************************************************************)
RECURSIVE saslprep(_)
saslprep(s) ==
  IF Len(s) = 0 THEN s
  ELSE IF Len(s) >= 2 /\ s[1] = 194 /\ s[2] = 173 THEN saslprep(SubSeq(s, 3, Len(s)))
  ELSE <<s[1]>> \o saslprep(Tail(s))

RECURSIVE locale_to_utf8(_)
locale_to_utf8(s) ==
  IF Len(s) = 0 THEN s
  ELSE (IF s[1] < 128 THEN <<s[1]>> ELSE <<192 + (s[1] \div 64), 128 + (s[1] % 64)>>)
       \o locale_to_utf8(Tail(s))

(***************************************************************************)
(* Procedures of the security hooks, in the order of the source.  E is the *)
(* value of Trailer /Encrypt oget and T the Trailer.                       *)
(***************************************************************************)

(* <ciphertext> <key> arc4decode <plaintext> *)
arc4decode(ciphertext, key) ==
  IF Len(ciphertext) = 0 THEN ciphertext ELSE ArcfourDecode(ciphertext, key)

(* <ciphertext> << /Key key /Padding false >> aesdecode <plaintext> *)
aesdecode(ciphertext, key) ==
  IF Len(ciphertext) = 0 THEN ciphertext ELSE AESDecode(ciphertext, key)

md5(s) == MD5Encode(s)

sha256(s) == SHA256Encode(s)

(* <string> contains_non_ascii <bool> *)
contains_non_ascii(s) == \E i \in 1..Len(s) : s[i] >= 128

pdf_padding_string ==
  << 40, 191, 78, 94, 78, 117, 138, 65, 100, 0, 78, 86, 255, 250, 1, 8,
     46, 46, 0, 182, 208, 104, 62, 128, 47, 12, 169, 254, 100, 83, 105, 122 >>

(* Pad a key out to 32 bytes. *)
pdf_pad_key(key) ==
  LET k == IF Len(key) > 32 THEN getinterval(key, 0, 32) ELSE key
  IN  k \o getinterval(pdf_padding_string, 0, 32 - Len(k))

(* <iter-num> <key> pdf_xorbytes <xored-key> *)
pdf_xorbytes(iter, key) == Str([j \in 1..Len(key) |-> xor(key[j], iter)])

(* an integer entry that is not present in a dictionary *)
NoInt == -1

(* pdf_key_length without the case for V 1 *)
pdf_key_length_ignoring_V(E) ==
  IF E.Length # NoInt THEN E.Length \div 8 ELSE 5

(* Get length of encryption key in bytes *)
pdf_key_length(E) ==
  IF (IF E.V = NoInt THEN 0 ELSE E.V) = 1 THEN 5
  ELSE IF E.Length # NoInt THEN E.Length \div 8 ELSE 5

md5_trunk(s, E) == getinterval(md5(s), 0, pdf_key_length(E))

(* n { md5_trunk } repeat *)
RECURSIVE md5_trunk_repeat(_, _, _)
md5_trunk_repeat(n, s, E) ==
  IF n = 0 THEN s
  ELSE IF n = 1 THEN md5_trunk(s, E)
  ELSE LET half == md5_trunk_repeat(n \div 2, s, E)
       IN  IF Len(half) >= 0 THEN md5_trunk_repeat(n - (n \div 2), half, E) ELSE half

(* P as 4 bytes, least significant first: 255 and, -8 bitshift 255 and, ... *)
(* (\div rounds down, as the arithmetic shift does)                        *)
PBytes(P) ==
  << P % 256, (P \div 256) % 256, (P \div 65536) % 256, (P \div 16777216) % 256 >>

(* Trailer /ID knownoget { 0 oget } { () } ifelse *)
ID0(T) == IF T.IDknown THEN T.ID[1] ELSE <<>>

(* Algorithm 3.2 with step 6 for every R of 3 and more *)
pdf_compute_encryption_key_buffer_from_R3(password, T) ==
  LET E == T.Encrypt
      step6(buf) == IF E.R >= 3 /\ E.EncryptMetadata = "false"
                    THEN buf \o <<255, 255, 255, 255>>
                    ELSE buf
  IN  step6(pdf_pad_key(password) \o E.O \o PBytes(E.P) \o ID0(T))

(* Algorithm 3.2: the string that is hashed, steps 1 to 6 *)
pdf_compute_encryption_key_buffer(password, T) ==
  LET E == T.Encrypt
      step6(buf) == IF E.R >= 3 /\ E.R >= 4 /\ E.EncryptMetadata = "false"
                    THEN buf \o <<255, 255, 255, 255>>
                    ELSE buf
  IN  step6(pdf_pad_key(password) \o E.O \o PBytes(E.P) \o ID0(T))

(* Algorithm 3.2 *)
pdf_compute_encryption_key(password, T) ==
  LET E == T.Encrypt
      step8(k) == IF E.R >= 3 THEN md5_trunk_repeat(50, k, E) ELSE k
  IN  step8(md5_trunk(pdf_compute_encryption_key_buffer(password, T), E))

(* Algorithm 3.4 *)
pdf_gen_user_password_R2(filekey) == arc4decode(pdf_padding_string, filekey)

(* first 1 last { key pdf_xorbytes arc4decode } for *)
RECURSIVE xor_rounds(_, _, _, _)
xor_rounds(first, last, data, key) ==
  IF first > last THEN data
  ELSE IF first = last THEN arc4decode(data, pdf_xorbytes(first, key))
  ELSE LET mid  == (first + last) \div 2
           part == xor_rounds(first, mid, data, key)
       IN  IF Len(part) >= 0 THEN xor_rounds(mid + 1, last, part, key) ELSE part

(* Algorithm 3.5 *)
pdf_gen_user_password_R3(filekey, T) ==
  xor_rounds(1, 19, arc4decode(md5(pdf_padding_string \o ID0(T)), filekey), filekey)

(* <password> pdf_gen_user_password <filekey> <U> *)
pdf_gen_user_password(password, T) ==
  LET R == T.Encrypt.R
      gen(filekey) ==
        IF R = 2
        THEN [err |-> "", filekey |-> filekey, U |-> pdf_gen_user_password_R2(filekey)]
        ELSE IF R = 3 \/ R = 4
        THEN [err |-> "", filekey |-> filekey, U |-> pdf_gen_user_password_R3(filekey, T)]
        ELSE [err |-> "undefined", filekey |-> <<>>, U |-> <<>>]
  IN  gen(pdf_compute_encryption_key(password, T))

(* The result of a password check: ok with the file key, or not ok; err   *)
(* names the error the procedure signalled instead of returning.           *)
Success(key)  == [ok |-> TRUE, key |-> key, err |-> ""]
Failure       == [ok |-> FALSE, key |-> <<>>, err |-> ""]
Signalled(e)  == [ok |-> FALSE, key |-> <<>>, err |-> e]

(* A result of a revision 5 or 6 check, with what the check saw on its way: *)
(* whether a hash comparison succeeded, and the Perms string as decrypted   *)
(* with the file key that comparison led to.                                *)
Seen(result, hash, perms) ==
  [ok |-> result.ok, key |-> result.key, err |-> result.err,
   hash |-> hash, perms |-> perms]

(* Algorithm 3.6 *)
pdf_check_pre_r5_user_password(password, T) ==
  LET compare(g) ==
        IF g.err # "" THEN Signalled(g.err)
        ELSE IF Len(T.Encrypt.U) < Len(g.U) THEN Signalled("rangecheck")
        ELSE IF getinterval(T.Encrypt.U, 0, Len(g.U)) = g.U THEN Success(g.filekey)
        ELSE Failure
  IN  compare(pdf_gen_user_password(password, T))

(* Compute an owner key, ie the result of step 4 of Algorithm 3.3 *)
pdf_owner_key(password, E) ==
  LET rehash(k) == IF E.R >= 3 THEN md5_trunk_repeat(50, k, E) ELSE k
  IN  rehash(md5_trunk(pdf_pad_key(password), E))

(* Algorithm 3.7, steps 1 to 3: the user password recovered from O *)
pdf_owner_unwrap(password, E) ==
  LET rounds(d, key) == IF E.R >= 3 THEN xor_rounds(1, 19, d, key) ELSE d
      unwrap(key)    == rounds(arc4decode(E.O, key), key)
  IN  unwrap(pdf_owner_key(password, E))

(* Algorithm 3.7 returning the owner key of step 1 as the file key *)
pdf_check_pre_r5_owner_password_with_owner_key(password, T) ==
  LET E == T.Encrypt
      keep(r) == IF r.ok THEN Success(pdf_owner_key(password, E)) ELSE r
  IN  keep(pdf_check_pre_r5_user_password(pdf_owner_unwrap(password, E), T))

(* Algorithm 3.7 *)
pdf_check_pre_r5_owner_password(password, T) ==
  pdf_check_pre_r5_user_password(pdf_owner_unwrap(password, T.Encrypt), T)

(* pdf_check_r5_password without the test of step 5 *)
pdf_check_r5_password_without_Perms(password, T, sys) ==
  LET E   == T.Encrypt
      O   == E.O
      U   == E.U
      step2(p) == IF Len(p) > 127 THEN getinterval(p, 0, 127) ELSE p
      verdict(hash, key, perms) ==
        IF hash
        THEN Seen(Success(key), TRUE, perms)
        ELSE Seen(Failure, FALSE, <<>>)
      step5(hash, key) ==
        verdict(hash, key, IF hash THEN aesdecode(string(16) \o E.Perms, key) ELSE <<>>)
      steps3and4(Password, asOwner, asUser) ==
        step5(asOwner \/ asUser,
              IF asOwner
              THEN aesdecode(string(16) \o E.OE,
                             sha256(Password \o getinterval(O, 40, 8)
                                             \o getinterval(U, 0, 48)))
              ELSE aesdecode(string(16) \o E.UE,
                             sha256(Password \o getinterval(U, 40, 8))))
      check(Password) ==
        steps3and4(Password,
                   sha256(Password \o getinterval(O, 32, 8) \o getinterval(U, 0, 48))
                     = getinterval(O, 0, 32),
                   sha256(Password \o getinterval(U, 32, 8)) = getinterval(U, 0, 32))
  IN  check(step2(IF sys.saslprep THEN saslprep(password) ELSE password))

(* Algorithm 3.2a.  sys records which optional operators systemdict has. *)
pdf_check_r5_password(password, T, sys) ==
  LET E   == T.Encrypt
      O   == E.O
      U   == E.U
      step2(p) == IF Len(p) > 127 THEN getinterval(p, 0, 127) ELSE p
      verdict(hash, key, perms) ==
        IF hash
        THEN IF Len(perms) < 12 \/ getinterval(perms, 9, 3) # <<97, 100, 98>>
             THEN Seen(Signalled("rangecheck"), TRUE, perms)
             ELSE Seen(Success(key), TRUE, perms)
        ELSE Seen(Failure, FALSE, <<>>)
      step5(hash, key) ==
        verdict(hash, key, IF hash THEN aesdecode(string(16) \o E.Perms, key) ELSE <<>>)
      steps3and4(Password, asOwner, asUser) ==
        step5(asOwner \/ asUser,
              IF asOwner
              THEN aesdecode(string(16) \o E.OE,
                             sha256(Password \o getinterval(O, 40, 8)
                                             \o getinterval(U, 0, 48)))
              ELSE aesdecode(string(16) \o E.UE,
                             sha256(Password \o getinterval(U, 40, 8))))
      check(Password) ==
        steps3and4(Password,
                   sha256(Password \o getinterval(O, 32, 8) \o getinterval(U, 0, 48))
                     = getinterval(O, 0, 32),
                   sha256(Password \o getinterval(U, 32, 8)) = getinterval(U, 0, 32))
  IN  check(step2(IF sys.saslprep THEN saslprep(password) ELSE password))

(* the hardened hash of revision 6, an injected capability *)
hardenedHash(password, salt, extra) == Digest(password \o salt \o extra, 32, 9973)

(* <password> <Encrypt> check_r6_password <filekey> true | false : the     *)
(* revision 6 row of the dispatch table and the Perms check that follows   *)
check_r6_password(password, E) ==
  LET O   == E.O
      U   == E.U
      U48 == getinterval(U, 0, 48)
      verdict(hash, key, perms) ==
        IF hash
        THEN IF Len(perms) < 12 \/ getinterval(perms, 9, 3) # <<97, 100, 98>>
             THEN Seen(Signalled("IntegrityError"), TRUE, perms)
             ELSE Seen(Success(key), TRUE, perms)
        ELSE Seen(Failure, FALSE, <<>>)
      permsCheck(hash, key) ==
        verdict(hash, key, IF hash THEN aesdecode(string(16) \o E.Perms, key) ELSE <<>>)
      rows(asUser, asOwner) ==
        permsCheck(asUser \/ asOwner,
                   IF asUser
                   THEN aesdecode(string(16) \o E.UE,
                                  hardenedHash(password, getinterval(U, 40, 8), <<>>))
                   ELSE aesdecode(string(16) \o E.OE,
                                  hardenedHash(password, getinterval(O, 40, 8), U48)))
  IN  rows(hardenedHash(password, getinterval(U, 32, 8), <<>>) = getinterval(U, 0, 32),
           hardenedHash(password, getinterval(O, 32, 8), U48) = getinterval(O, 0, 32))

(* One check made by pdf_check_password, for the record of the calls *)
Call(proc, password, result) == [proc |-> proc, password |-> password, result |-> result]

(* pdf_check_password running its second check whatever the first returned *)
pdf_check_password_calls_unconditional(password, T, sys) ==
  LET R == T.Encrypt.R
      pre_r5(u) ==
        IF FALSE
        THEN << Call("pdf_check_pre_r5_user_password", password, u) >>
        ELSE << Call("pdf_check_pre_r5_user_password", password, u),
                Call("pdf_check_pre_r5_owner_password", password,
                     pdf_check_pre_r5_owner_password(password, T)) >>
      r5(p) == Call("pdf_check_r5_password", p, pdf_check_r5_password(p, T, sys))
      r6(p) == Call("check_r6_password", p, check_r6_password(p, T.Encrypt))
      attempt(p) == IF R = 5 THEN r5(p) ELSE r6(p)
      retry(first) ==
        IF first.result.err # ""
        THEN << first >>
        ELSE << first, attempt(locale_to_utf8(password)) >>
  IN  IF R >= 2 /\ R <= 4 THEN pre_r5(pdf_check_pre_r5_user_password(password, T))
      ELSE IF R = 5 \/ R = 6 THEN retry(attempt(password))
      ELSE << Call("pdf_check_password", password, Signalled("undefined")) >>

(* <password> pdf_check_password <filekey> true | false : the checks it   *)
(* runs, in order.  The result of pdf_check_password is that of the last.  *)
pdf_check_password_calls(password, T, sys) ==
  LET R == T.Encrypt.R
      pre_r5(u) ==
        IF u.ok
        THEN << Call("pdf_check_pre_r5_user_password", password, u) >>
        ELSE << Call("pdf_check_pre_r5_user_password", password, u),
                Call("pdf_check_pre_r5_owner_password", password,
                     pdf_check_pre_r5_owner_password(password, T)) >>
      r5(p) == Call("pdf_check_r5_password", p, pdf_check_r5_password(p, T, sys))
      r6(p) == Call("check_r6_password", p, check_r6_password(p, T.Encrypt))
      attempt(p) == IF R = 5 THEN r5(p) ELSE r6(p)
      retry(first) ==
        IF first.result.ok \/ first.result.err # "" \/ ~sys.locale_to_utf8
        THEN << first >>
        ELSE << first, attempt(locale_to_utf8(password)) >>
  IN  IF R >= 2 /\ R <= 4 THEN pre_r5(pdf_check_pre_r5_user_password(password, T))
      ELSE IF R = 5 \/ R = 6 THEN retry(attempt(password))
      ELSE << Call("pdf_check_password", password, Signalled("undefined")) >>

pdf_check_password(password, T, sys) ==
  LET returned(checks) == [checks |-> checks, result |-> checks[Len(checks)].result]
  IN  returned(pdf_check_password_calls(password, T, sys))

(***************************************************************************)
(* Whether a password is required: the value pdf_process_Encrypt leaves on *)
(* the stack before it looks for PDFPassword, or the error it signals.     *)
(***************************************************************************)
(* isRequired taking a missing StdCF for no requirement *)
isRequired_StdCF_optional(E) ==
  IF E.V >= 4
  THEN LET StmFnotIdentity == E.StmF # "absent" /\ E.StmF # "Identity"
           StrFnotIdentity == E.StrF # "absent" /\ E.StrF # "Identity"
           b == StmFnotIdentity \/ StrFnotIdentity
       IN  IF E.CF = "absent" THEN [err |-> "", required |-> TRUE]
           ELSE IF E.CF # "dict" THEN [err |-> "invalidfileaccess", required |-> FALSE]
           ELSE IF E.StdCF = "absent" THEN [err |-> "", required |-> b]
           ELSE IF E.StdCF # "dict" THEN [err |-> "invalidfileaccess", required |-> FALSE]
           ELSE IF E.AuthEvent = "absent" THEN [err |-> "", required |-> TRUE]
           ELSE IF E.AuthEvent = "wrongtype"
                THEN [err |-> "invalidfileaccess", required |-> FALSE]
           ELSE [err |-> "", required |-> (E.AuthEvent = "DocOpen") \/ b]
  ELSE [err |-> "", required |-> TRUE]

(* isRequired taking a missing AuthEvent for no requirement *)
isRequired_AuthEvent_optional(E) ==
  IF E.V >= 4
  THEN LET StmFnotIdentity == E.StmF # "absent" /\ E.StmF # "Identity"
           StrFnotIdentity == E.StrF # "absent" /\ E.StrF # "Identity"
           b == StmFnotIdentity \/ StrFnotIdentity
       IN  IF E.CF = "absent" THEN [err |-> "", required |-> TRUE]
           ELSE IF E.CF # "dict" THEN [err |-> "invalidfileaccess", required |-> FALSE]
           ELSE IF E.StdCF = "absent" THEN [err |-> "", required |-> TRUE]
           ELSE IF E.StdCF # "dict" THEN [err |-> "invalidfileaccess", required |-> FALSE]
           ELSE IF E.AuthEvent = "absent" THEN [err |-> "", required |-> b]
           ELSE IF E.AuthEvent = "wrongtype"
                THEN [err |-> "invalidfileaccess", required |-> FALSE]
           ELSE [err |-> "", required |-> (E.AuthEvent = "DocOpen") \/ b]
  ELSE [err |-> "", required |-> TRUE]

(* isRequired with the DocOpen test inverted *)
isRequired_DocOpen_waived(E) ==
  IF E.V >= 4
  THEN LET StmFnotIdentity == E.StmF # "absent" /\ E.StmF # "Identity"
           StrFnotIdentity == E.StrF # "absent" /\ E.StrF # "Identity"
           b == StmFnotIdentity \/ StrFnotIdentity
       IN  IF E.CF = "absent" THEN [err |-> "", required |-> TRUE]
           ELSE IF E.CF # "dict" THEN [err |-> "invalidfileaccess", required |-> FALSE]
           ELSE IF E.StdCF = "absent" THEN [err |-> "", required |-> TRUE]
           ELSE IF E.StdCF # "dict" THEN [err |-> "invalidfileaccess", required |-> FALSE]
           ELSE IF E.AuthEvent = "absent" THEN [err |-> "", required |-> TRUE]
           ELSE IF E.AuthEvent = "wrongtype"
                THEN [err |-> "invalidfileaccess", required |-> FALSE]
           ELSE [err |-> "", required |-> (E.AuthEvent # "DocOpen") \/ b]
  ELSE [err |-> "", required |-> TRUE]

(* isRequired comparing AuthEvent with DocOpen without the type test of    *)
(* line 811                                                                *)
isRequired_untyped_AuthEvent(E) ==
  IF E.V >= 4
  THEN LET StmFnotIdentity == E.StmF # "absent" /\ E.StmF # "Identity"
           StrFnotIdentity == E.StrF # "absent" /\ E.StrF # "Identity"
           b == StmFnotIdentity \/ StrFnotIdentity
       IN  IF E.CF = "absent" THEN [err |-> "", required |-> TRUE]
           ELSE IF E.CF # "dict" THEN [err |-> "invalidfileaccess", required |-> FALSE]
           ELSE IF E.StdCF = "absent" THEN [err |-> "", required |-> TRUE]
           ELSE IF E.StdCF # "dict" THEN [err |-> "invalidfileaccess", required |-> FALSE]
           ELSE IF E.AuthEvent = "absent" THEN [err |-> "", required |-> TRUE]
           ELSE [err |-> "", required |-> (E.AuthEvent = "DocOpen") \/ b]
  ELSE [err |-> "", required |-> TRUE]

isRequired(E) ==
  IF E.V >= 4
  THEN LET StmFnotIdentity == E.StmF # "absent" /\ E.StmF # "Identity"
           StrFnotIdentity == E.StrF # "absent" /\ E.StrF # "Identity"
           b == StmFnotIdentity \/ StrFnotIdentity
       IN  IF E.CF = "absent" THEN [err |-> "", required |-> TRUE]
           ELSE IF E.CF # "dict" THEN [err |-> "invalidfileaccess", required |-> FALSE]
           ELSE IF E.StdCF = "absent" THEN [err |-> "", required |-> TRUE]
           ELSE IF E.StdCF # "dict" THEN [err |-> "invalidfileaccess", required |-> FALSE]
           ELSE IF E.AuthEvent = "absent" THEN [err |-> "", required |-> TRUE]
           ELSE IF E.AuthEvent = "wrongtype"
                THEN [err |-> "invalidfileaccess", required |-> FALSE]
           ELSE [err |-> "", required |-> (E.AuthEvent = "DocOpen") \/ b]
  ELSE [err |-> "", required |-> TRUE]

(***************************************************************************)
(* The documents.  A producer writes O, U, OE, UE and Perms for a user and *)
(* an owner password with the algorithms the checks above invert.          *)
(***************************************************************************)
EmptyPassword == <<>>
UserPassword  == <<195, 169>>            \* e-acute in UTF-8
OwnerPassword == <<111, 119, 110>>
Latin1Password == <<233>>                \* e-acute in ISO 8859-1
SoftPassword  == <<195, 169, 194, 173>>  \* e-acute, soft hyphen
WrongPassword == <<120>>

PValue == -44

TrailerID == << <<1, 2, 3, 4>> >>

ProducerFileKey == Str([i \in 1..32 |-> (7 * i + 3) % 256])

ProducerPerms(P) == PBytes(P) \o <<255, 255, 255, 255, 84, 97, 100, 98, 1, 2, 3, 4>>

(* flip one byte of a string *)
Corrupt(str, index) == [str EXCEPT ![index + 1] = xor(@, 1)]

ProduceCrypto(c) ==
  LET E0 == [R |-> c.R, V |-> c.V, Length |-> c.Length,
             EncryptMetadata |-> c.EncryptMetadata, P |-> PValue,
             O |-> pdf_padding_string, U |-> pdf_padding_string,
             OE |-> <<>>, UE |-> <<>>, Perms |-> <<>>]
      H(pw, salt, extra) == IF c.R = 5 THEN sha256(pw \o salt \o extra)
                            ELSE hardenedHash(pw, salt, extra)
      uvs == <<11, 12, 13, 14, 15, 16, 17, 18>>
      uks == <<21, 22, 23, 24, 25, 26, 27, 28>>
      ovs == <<31, 32, 33, 34, 35, 36, 37, 38>>
      oks == <<41, 42, 43, 44, 45, 46, 47, 48>>
      padU(u) == u \o string(32 - Len(u))
      withU(O) ==
        [E0 EXCEPT !.O = O,
                   !.U = padU(pdf_gen_user_password(
                                c.user,
                                [Encrypt |-> [E0 EXCEPT !.O = O], IDknown |-> TRUE,
                                 ID |-> TrailerID]).U)]
      withPerms(U, pm) ==
        [E0 EXCEPT !.U = U,
                   !.O = H(c.owner, ovs, U) \o ovs \o oks,
                   !.UE = AESEncode(ProducerFileKey, H(c.user, uks, <<>>)),
                   !.OE = AESEncode(ProducerFileKey, H(c.owner, oks, U)),
                   !.Perms = IF c.permsOK THEN pm ELSE Corrupt(pm, 10)]
  IN  IF c.R >= 2 /\ c.R <= 4
      THEN withU(pdf_owner_unwrap(c.owner, [E0 EXCEPT !.O = pdf_pad_key(c.user)]))
      ELSE IF c.R = 5 \/ c.R = 6
      THEN withPerms(H(c.user, uvs, <<>>) \o uvs \o uks,
                     AESEncode(ProducerPerms(PValue), ProducerFileKey))
      ELSE E0

Revisions == 2..7
Versions == {1, 2, 4, 5}
SuppliedPasswords ==
  {UserPassword, OwnerPassword, Latin1Password, SoftPassword, WrongPassword}
Passwords == {EmptyPassword} \cup SuppliedPasswords
SystemDicts == [saslprep : BOOLEAN, locale_to_utf8 : BOOLEAN]

(* the documents a producer can write: revision, version, key length,      *)
(* EncryptMetadata, user password, and whether Perms arrives intact        *)
CryptoParams ==
  { c \in [R : Revisions, V : Versions, Length : {NoInt, 128},
           EncryptMetadata : {"absent", "true", "false"},
           user : {EmptyPassword, UserPassword}, owner : {OwnerPassword},
           permsOK : BOOLEAN] :
      /\ c.Length = (IF c.V = 1 THEN NoInt ELSE 128)
      /\ ~c.permsOK => c.R \in {5, 6} }

(* the crypt filter entries of an Encrypt dictionary *)
FilterParams ==
  { f \in [Filter : {"Standard", "Foo"},
           StmF : {"absent", "Identity", "StdCF"},
           StrF : {"absent", "Identity", "StdCF"},
           CF : {"absent", "wrongtype", "dict"},
           StdCF : {"absent", "wrongtype", "dict"},
           AuthEvent : {"absent", "wrongtype", "DocOpen", "EFOpen"},
           CFM : {"absent", "V2", "AESV2", "AESV3"},
           MyCFM : {"absent"}] :
      /\ f.CF # "dict" => f.StdCF = "absent"
      /\ f.StdCF # "dict" => f.AuthEvent = "absent" /\ f.CFM = "absent"
      /\ f.StdCF = "dict" => f.CFM # "absent" }

MakeTrailer(k, f) ==
  [Encrypt |->
     [Filter |-> f.Filter, V |-> k.V, R |-> k.R, Length |-> k.Length,
      StmF |-> f.StmF, StrF |-> f.StrF, CF |-> f.CF, StdCF |-> f.StdCF,
      AuthEvent |-> f.AuthEvent, CFM |-> f.CFM, MyCFM |-> f.MyCFM,
      EncryptMetadata |-> k.EncryptMetadata, P |-> k.P,
      O |-> k.O, U |-> k.U, OE |-> k.OE, UE |-> k.UE, Perms |-> k.Perms],
   IDknown |-> TRUE, ID |-> TrailerID]

(* what the producer wrote, for every document *)
Produced == [c \in CryptoParams |-> ProduceCrypto(c)] @@ <<>>

(* the entries of the trailer that the password checks read *)
CheckedEntries(T) ==
  [Encrypt |->
     [V |-> T.Encrypt.V, R |-> T.Encrypt.R, Length |-> T.Encrypt.Length,
      EncryptMetadata |-> T.Encrypt.EncryptMetadata, P |-> T.Encrypt.P,
      O |-> T.Encrypt.O, U |-> T.Encrypt.U, OE |-> T.Encrypt.OE,
      UE |-> T.Encrypt.UE, Perms |-> T.Encrypt.Perms],
   IDknown |-> T.IDknown, ID |-> T.ID]

ProducedEntries ==
  { [Encrypt |-> Produced[c], IDknown |-> TRUE, ID |-> TrailerID] : c \in CryptoParams }

(* pdf_check_password, evaluated once for every document, password and     *)
(* systemdict rather than at every step.  Only revisions 5 and 6 look into *)
(* systemdict, so the other revisions are evaluated once for all of them.  *)
NoOptional == [saslprep |-> FALSE, locale_to_utf8 |-> FALSE]

PasswordChecks ==
  [t \in ProducedEntries, p \in Passwords |->
     [y \in (IF t.Encrypt.R \in {5, 6} THEN SystemDicts ELSE {NoOptional}) |->
        pdf_check_password(p, t, y)] @@ <<>>] @@ <<>>

CheckPassword(password, T, sys) ==
  PasswordChecks[CheckedEntries(T), password]
                [IF T.Encrypt.R \in {5, 6} THEN sys ELSE NoOptional]

(***************************************************************************)
(* Calculate the key used to decrypt an object.                            *)
(***************************************************************************)
(* CF knownoget { StmF oget /CFM oget }: the CFM of the crypt filter that  *)
(* name selects, or the error of a failed oget.  CF holds at most two      *)
(* crypt filters, StdCF and one of another name, MyCF.                     *)
CFMof(E, name) ==
  IF E.CF # "dict" THEN [err |-> "typecheck", CFM |-> "absent"]
  ELSE IF name = "MyCF"
       THEN IF E.MyCFM = "absent" THEN [err |-> "undefined", CFM |-> "absent"]
            ELSE [err |-> "", CFM |-> E.MyCFM]
  ELSE IF name # "StdCF" \/ E.StdCF = "absent" THEN [err |-> "undefined", CFM |-> "absent"]
  ELSE IF E.StdCF # "dict" THEN [err |-> "typecheck", CFM |-> "absent"]
  ELSE IF E.CFM = "absent" THEN [err |-> "undefined", CFM |-> "absent"]
  ELSE [err |-> "", CFM |-> E.CFM]

(* computeobjkey without `255 and` on the highest byte of each number *)
computeobjkey_buffer_unmasked(obj, gen, key, E) ==
  LET buf == key \o << obj % 256, (obj \div 256) % 256, obj \div 65536,
                       gen % 256, gen \div 256 >>
  IN  IF E.StmF = "absent" \/ E.StmF = "Identity" \/ E.CF = "absent"
      THEN [err |-> "", buf |-> buf]
      ELSE LET m == CFMof(E, E.StmF)
           IN  IF m.err # "" THEN [err |-> m.err, buf |-> <<>>]
               ELSE IF m.CFM = "AESV2" THEN [err |-> "", buf |-> buf \o <<115, 65, 108, 84>>]
               ELSE [err |-> "", buf |-> buf]

(* the string computeobjkey hashes when V is not 5, or the error *)
computeobjkey_buffer(obj, gen, key, E) ==
  LET buf == key \o << obj % 256, (obj \div 256) % 256, (obj \div 65536) % 256,
                       gen % 256, (gen \div 256) % 256 >>
  IN  IF E.StmF = "absent" \/ E.StmF = "Identity" \/ E.CF = "absent"
      THEN [err |-> "", buf |-> buf]
      ELSE LET m == CFMof(E, E.StmF)
           IN  IF m.err # "" THEN [err |-> m.err, buf |-> <<>>]
               ELSE IF m.CFM = "AESV2" THEN [err |-> "", buf |-> buf \o <<115, 65, 108, 84>>]
               ELSE [err |-> "", buf |-> buf]

(* computeobjkey deriving an object key for V 5 as for the other versions *)
computeobjkey_V5_salted(obj, gen, key, E) ==
  LET trunc(digest) == getinterval(digest, 0, Min(Len(key) + 5, Len(digest)))
      hash(b) == IF b.err # "" THEN [err |-> b.err, key |-> <<>>]
                 ELSE [err |-> "", key |-> trunc(md5(b.buf))]
  IN  hash(computeobjkey_buffer(obj, gen, key, E))

(* computeobjkey returning the whole digest *)
computeobjkey_untruncated(obj, gen, key, E) ==
  IF E.V = 5 THEN [err |-> "", key |-> key]
  ELSE LET hash(b) == IF b.err # "" THEN [err |-> b.err, key |-> <<>>]
                      ELSE [err |-> "", key |-> md5(b.buf)]
       IN  hash(computeobjkey_buffer(obj, gen, key, E))

(* <object#> <generation#> computeobjkey <keystring> *)
computeobjkey(obj, gen, key, E) ==
  IF E.V = 5 THEN [err |-> "", key |-> key]
  ELSE LET trunc(digest) == getinterval(digest, 0, Min(Len(key) + 5, Len(digest)))
           hash(b) == IF b.err # "" THEN [err |-> b.err, key |-> <<>>]
                      ELSE [err |-> "", key |-> trunc(md5(b.buf))]
       IN  hash(computeobjkey_buffer(obj, gen, key, E))

(***************************************************************************)
(* .decpdfrun: how a string token is decrypted with the object key.        *)
(***************************************************************************)
decpdfrun_string(str, key, E) ==
  IF E.R < 4 THEN [err |-> "", how |-> "arc4", str |-> arc4decode(str, key)]
  ELSE IF E.StrF = "absent" \/ E.StrF = "Identity"
       THEN [err |-> "", how |-> "plain", str |-> str]
  ELSE IF E.StrF = "StdCF"
       THEN IF E.CF = "absent"
            THEN [err |-> "", how |-> "arc4", str |-> arc4decode(str, key)]
            ELSE LET m == CFMof(E, "StdCF")
                 IN  IF m.err # "" THEN [err |-> m.err, how |-> "plain", str |-> str]
                     ELSE IF m.CFM = "AESV2" \/ m.CFM = "AESV3"
                     THEN [err |-> "", how |-> "aes", str |-> aesdecode(str, key)]
                     ELSE [err |-> "", how |-> "arc4", str |-> arc4decode(str, key)]
  ELSE [err |-> "", how |-> "arc4", str |-> arc4decode(str, key)]

(***************************************************************************)
(* pdf_run_resolve, lines 1060-1110: whether the resolved object gets a    *)
(* StreamKey.  o is the object as read: isStream says that it is an        *)
(* executable dictionary, Type is its /Type or "absent".                   *)
(***************************************************************************)
(* the decision looking at EncryptMetadata from revision 4 on only *)
StreamKeyWanted_from_R4(o, E) ==
  IF ~o.isStream THEN FALSE
  ELSE IF E.R < 4 THEN TRUE
  ELSE IF E.EncryptMetadata = "false" /\ o.Type = "Metadata" THEN FALSE
  ELSE IF (IF E.StmF = "absent" THEN "Identity" ELSE E.StmF) = "Identity" THEN FALSE
  ELSE TRUE

(* the decision without the default of line 1101 for a missing StmF *)
StreamKeyWanted_without_default(o, E) ==
  IF ~o.isStream THEN FALSE
  ELSE IF E.R < 3 THEN TRUE
  ELSE IF E.EncryptMetadata = "false" /\ o.Type = "Metadata" THEN FALSE
  ELSE IF E.R < 4 THEN TRUE
  ELSE IF E.StmF = "Identity" THEN FALSE
  ELSE TRUE

StreamKeyWanted(o, E) ==
  IF ~o.isStream THEN FALSE
  ELSE IF E.R < 3 THEN TRUE
  ELSE IF E.EncryptMetadata = "false" /\ o.Type = "Metadata" THEN FALSE
  ELSE IF E.R < 4 THEN TRUE
  ELSE IF (IF E.StmF = "absent" THEN "Identity" ELSE E.StmF) = "Identity" THEN FALSE
  ELSE TRUE

(***************************************************************************)
(* pdf_decrypt_stream: the decryption filter prefixed to a stream.         *)
(***************************************************************************)
(* pdf_decrypt_stream choosing the AES filter for AESV2 alone *)
pdf_decrypt_stream_AESV2_only(dict, E) ==
  IF ~dict.StreamKey.known THEN [err |-> "", filter |-> "none", key |-> <<>>]
  ELSE IF E.StmF = "absent" \/ E.CF = "absent"
       THEN [err |-> "", filter |-> "ArcfourDecode", key |-> dict.StreamKey.value]
  ELSE LET m == CFMof(E, E.StmF)
       IN  IF m.err # "" THEN [err |-> m.err, filter |-> "none", key |-> <<>>]
           ELSE IF m.CFM = "AESV2"
           THEN [err |-> "", filter |-> "AESDecode", key |-> dict.StreamKey.value]
           ELSE [err |-> "", filter |-> "ArcfourDecode", key |-> dict.StreamKey.value]

pdf_decrypt_stream(dict, E) ==
  IF ~dict.StreamKey.known THEN [err |-> "", filter |-> "none", key |-> <<>>]
  ELSE IF E.StmF = "absent" \/ E.CF = "absent"
       THEN [err |-> "", filter |-> "ArcfourDecode", key |-> dict.StreamKey.value]
  ELSE LET m == CFMof(E, E.StmF)
       IN  IF m.err # "" THEN [err |-> m.err, filter |-> "none", key |-> <<>>]
           ELSE IF m.CFM = "AESV2" \/ m.CFM = "AESV3"
           THEN [err |-> "", filter |-> "AESDecode", key |-> dict.StreamKey.value]
           ELSE [err |-> "", filter |-> "ArcfourDecode", key |-> dict.StreamKey.value]

(***************************************************************************)
(* The state.                                                              *)
(***************************************************************************)
VARIABLES
  Trailer,      \* the trailer dictionary with its Encrypt dictionary
  systemdict,   \* which of .saslprep and .locale_to_utf8 are defined
  PDFPassword,  \* [known, value]: the -sPDFPassword= option
  FileKey,      \* [known, value]: /FileKey in pdfdict
  pc,           \* the position of the reader: in pdf_process_Encrypt, then
                \* "open", "error" (pdf_process_Encrypt signalled an error)
                \* or "resolve_error" (resolving an object did)
  branch,       \* the branch pdf_process_Encrypt took at line 848
  error,        \* the error signalled, "" when none
  calls,        \* the pdf_check_password calls made, in order
  object,       \* the object pdf_run_resolve resolved last, with the object
                \* key it computed and passed to .decpdfrun
  stream,       \* the filter pdf_decrypt_stream installed on its stream
  derived,      \* the string pdf_compute_encryption_key hashed and the key it
                \* returned, when it is called on its own
  o_stack,      \* the operand stack: its refs from the bottom up, how many
                \* of them the top block holds, the room left in it, and
                \* the room asked for at a stackoverflow
  op_pc,        \* the position of the stack operator being run
  code,         \* the code the operator returned, 0 for success
  locals,       \* the local variables of zroll in its multi-block path
  called        \* the operand stack as it was when the operator was called

pdfvars == <<Trailer, systemdict, PDFPassword, FileKey, pc, branch, error, calls,
             object, stream, derived>>

stackvars == <<o_stack, op_pc, code, locals, called>>

vars == <<pdfvars, stackvars>>

NoDerived == [known |-> FALSE, hashed |-> <<>>, key |-> <<>>]

EmptyStack == [refs |-> <<>>, inblock |-> 0, room |-> 0, requested |-> 0]

(* refs: a type and, for integers, value.intval; names carry a number that *)
(* tells them apart                                                        *)
make_int(v) == [type |-> "integer", value |-> v]
make_name(v) == [type |-> "name", value |-> v]

(* the refs below the bottom of a stack block *)
guard_value == [type |-> "invalid", value |-> 0]

NoLocals ==
  [path |-> "none", count |-> 0, mod |-> 0, i |-> 0, j |-> 0, left |-> 0,
   elt |-> 0, save |-> guard_value, assigned |-> <<>>]

(* no stack operator is running: the PDF procedures are looked at on their *)
(* own                                                                     *)
StackIdle ==
  /\ o_stack = EmptyStack
  /\ op_pc = "idle"
  /\ code = 0
  /\ locals = NoLocals
  /\ called = EmptyStack

Undefined == [known |-> FALSE, value |-> <<>>]
Defined(v) == [known |-> TRUE, value |-> v]

NoObject ==
  [resolved |-> FALSE, num |-> 0, gen |-> 0, isStream |-> FALSE, Type |-> "absent",
   str |-> <<>>, how |-> "plain", key |-> Undefined, StreamKey |-> Undefined]

NoStream == [opened |-> FALSE, filter |-> "none", key |-> <<>>]

(* the objects of the file: a stream of type Metadata, another stream, and *)
(* an object that is not a stream, each holding one string                 *)
MaxObjectNumber == 1
MaxGeneration == 0
SampleString == <<72, 105>>
Objects ==
  { o \in [num : 1..MaxObjectNumber, gen : 0..MaxGeneration, isStream : BOOLEAN,
           Type : {"absent", "Metadata"}, str : {SampleString}] :
      ~o.isStream => o.Type = "absent" }

InitWith(C, F, PW, SYS) ==
  /\ \E c \in C, f \in F : Trailer = MakeTrailer(Produced[c], f)
  /\ systemdict \in SYS
  /\ PDFPassword \in {Undefined} \cup {Defined(p) : p \in PW}
  /\ FileKey = Undefined
  /\ pc = "pdf_process_Encrypt"
  /\ branch = "none"
  /\ error = ""
  /\ calls = <<>>
  /\ object = NoObject
  /\ stream = NoStream
  /\ derived = NoDerived
  /\ StackIdle

(* the revisions and the versions producers pair them with *)
WrittenPairs == {<<2, 1>>, <<3, 2>>, <<4, 4>>, <<5, 5>>, <<6, 5>>}

(* the documents, options and builds of the whole reader: well-formed      *)
(* Encrypt dictionaries, opened with the owner password or with none       *)
Init ==
  InitWith({c \in CryptoParams : /\ <<c.R, c.V>> \in WrittenPairs
                                 /\ c.EncryptMetadata # "true"
                                 /\ c.permsOK},
           {f \in FilterParams : /\ f.Filter = "Standard"
                                 /\ f.CF # "wrongtype"
                                 /\ f.StdCF # "wrongtype"
                                 /\ f.AuthEvent # "wrongtype"},
           {OwnerPassword},
           {[saslprep |-> FALSE, locale_to_utf8 |-> TRUE]})

(* the documents, options and builds of the authentication alone *)
InitAuth ==
  InitWith({c \in CryptoParams : c.EncryptMetadata = "absent"},
           {f \in FilterParams : f.CFM \in {"absent", "AESV2"}},
           SuppliedPasswords,
           SystemDicts)

(* pdf_process_Encrypt without lines 841-847 *)
Inspect_ignoring_PDFPassword ==
  /\ pc = "pdf_process_Encrypt"
  /\ LET E == Trailer.Encrypt
         q == isRequired(E)
     IN  IF E.Filter # "Standard"
         THEN /\ pc' = "error" /\ error' = "undefined" /\ branch' = branch
         ELSE IF q.err # ""
         THEN /\ pc' = "error" /\ error' = q.err /\ branch' = branch
         ELSE IF q.required
         THEN /\ pc' = "check_empty" /\ branch' = "verify" /\ error' = error
         ELSE /\ pc' = "open" /\ branch' = "noverify" /\ error' = error
  /\ UNCHANGED <<Trailer, systemdict, PDFPassword, FileKey, calls, object, stream>>
  /\ UNCHANGED <<stackvars, derived>>

(* pdf_process_Encrypt without the Filter test of lines 767-773 *)
Inspect_ignoring_Filter ==
  /\ pc = "pdf_process_Encrypt"
  /\ LET E == Trailer.Encrypt
         q == isRequired(E)
     IN  IF q.err # ""
         THEN /\ pc' = "error" /\ error' = q.err /\ branch' = branch
         ELSE IF q.required \/ PDFPassword.known
         THEN /\ pc' = "check_empty" /\ branch' = "verify" /\ error' = error
         ELSE /\ pc' = "open" /\ branch' = "noverify" /\ error' = error
  /\ UNCHANGED <<Trailer, systemdict, PDFPassword, FileKey, calls, object, stream>>
  /\ UNCHANGED <<stackvars, derived>>

(* lines 766-847: the Filter test and the decision whether to verify *)
Inspect ==
  /\ pc = "pdf_process_Encrypt"
  /\ LET E == Trailer.Encrypt
         q == isRequired(E)
     IN  IF E.Filter # "Standard"
         THEN /\ pc' = "error" /\ error' = "undefined" /\ branch' = branch
         ELSE IF q.err # ""
         THEN /\ pc' = "error" /\ error' = q.err /\ branch' = branch
         ELSE IF q.required \/ PDFPassword.known
         THEN /\ pc' = "check_empty" /\ branch' = "verify" /\ error' = error
         ELSE /\ pc' = "open" /\ branch' = "noverify" /\ error' = error
  /\ UNCHANGED <<Trailer, systemdict, PDFPassword, FileKey, calls, object, stream>>
  /\ UNCHANGED <<stackvars, derived>>

(* the empty password check without the error of line 896 *)
CheckEmpty_without_error ==
  /\ pc = "check_empty"
  /\ \E r \in {CheckPassword(EmptyPassword, Trailer, systemdict)} :
       /\ calls' = Append(calls, [source |-> "empty", password |-> EmptyPassword,
                                 checks |-> r.checks, result |-> r.result])
       /\ IF r.result.err # ""
          THEN /\ pc' = "error" /\ error' = r.result.err /\ FileKey' = FileKey
          ELSE IF r.result.ok
          THEN /\ pc' = "open" /\ FileKey' = Defined(r.result.key) /\ error' = error
          ELSE IF PDFPassword.known
          THEN /\ pc' = "check_supplied" /\ FileKey' = FileKey /\ error' = error
          ELSE /\ pc' = "open" /\ error' = error /\ FileKey' = FileKey
  /\ UNCHANGED <<Trailer, systemdict, PDFPassword, branch, object, stream>>
  /\ UNCHANGED <<stackvars, derived>>

(* lines 849-852 and 894-897: () pdf_check_password *)
(* the empty password check going on to PDFPassword after a success *)
CheckEmpty_then_supplied ==
  /\ pc = "check_empty"
  /\ \E r \in {CheckPassword(EmptyPassword, Trailer, systemdict)} :
       /\ calls' = Append(calls, [source |-> "empty", password |-> EmptyPassword,
                                 checks |-> r.checks, result |-> r.result])
       /\ IF r.result.err # ""
          THEN /\ pc' = "error" /\ error' = r.result.err /\ FileKey' = FileKey
          ELSE IF PDFPassword.known
          THEN /\ pc' = "check_supplied" /\ error' = error
               /\ FileKey' = IF r.result.ok THEN Defined(r.result.key) ELSE FileKey
          ELSE IF r.result.ok
          THEN /\ pc' = "open" /\ FileKey' = Defined(r.result.key) /\ error' = error
          ELSE /\ pc' = "error" /\ error' = "invalidfileaccess" /\ FileKey' = FileKey
  /\ UNCHANGED <<Trailer, systemdict, PDFPassword, branch, object, stream>>
  /\ UNCHANGED <<stackvars, derived>>

CheckEmpty ==
  /\ pc = "check_empty"
  /\ \E r \in {CheckPassword(EmptyPassword, Trailer, systemdict)} :
       /\ calls' = Append(calls, [source |-> "empty", password |-> EmptyPassword,
                                 checks |-> r.checks, result |-> r.result])
       /\ IF r.result.err # ""
          THEN /\ pc' = "error" /\ error' = r.result.err /\ FileKey' = FileKey
          ELSE IF r.result.ok
          THEN /\ pc' = "open" /\ FileKey' = Defined(r.result.key) /\ error' = error
          ELSE IF PDFPassword.known
          THEN /\ pc' = "check_supplied" /\ FileKey' = FileKey /\ error' = error
          ELSE /\ pc' = "error" /\ error' = "invalidfileaccess" /\ FileKey' = FileKey
  /\ UNCHANGED <<Trailer, systemdict, PDFPassword, branch, object, stream>>
  /\ UNCHANGED <<stackvars, derived>>

(* the PDFPassword check without the error of line 892 *)
CheckSupplied_without_error ==
  /\ pc = "check_supplied"
  /\ \E r \in {CheckPassword(PDFPassword.value, Trailer, systemdict)} :
       /\ calls' = Append(calls, [source |-> "PDFPassword", password |-> PDFPassword.value,
                                 checks |-> r.checks, result |-> r.result])
       /\ IF r.result.err # ""
          THEN /\ pc' = "error" /\ error' = r.result.err /\ FileKey' = FileKey
          ELSE IF r.result.ok
          THEN /\ pc' = "open" /\ FileKey' = Defined(r.result.key) /\ error' = error
          ELSE /\ pc' = "open" /\ error' = error /\ FileKey' = FileKey
  /\ UNCHANGED <<Trailer, systemdict, PDFPassword, branch, object, stream>>
  /\ UNCHANGED <<stackvars, derived>>

(* lines 853-893: PDFPassword pdf_check_password *)
CheckSupplied ==
  /\ pc = "check_supplied"
  /\ \E r \in {CheckPassword(PDFPassword.value, Trailer, systemdict)} :
       /\ calls' = Append(calls, [source |-> "PDFPassword", password |-> PDFPassword.value,
                                 checks |-> r.checks, result |-> r.result])
       /\ IF r.result.err # ""
          THEN /\ pc' = "error" /\ error' = r.result.err /\ FileKey' = FileKey
          ELSE IF r.result.ok
          THEN /\ pc' = "open" /\ FileKey' = Defined(r.result.key) /\ error' = error
          ELSE /\ pc' = "error" /\ error' = "invalidfileaccess" /\ FileKey' = FileKey
  /\ UNCHANGED <<Trailer, systemdict, PDFPassword, branch, object, stream>>
  /\ UNCHANGED <<stackvars, derived>>

(* pdf_run_resolve leaving the object key in FileKey *)
RunResolve_storing_key(o) ==
  /\ pc = "open"
  /\ \E E \in {Trailer.Encrypt} :
     \E k \in {IF FileKey.known THEN computeobjkey(o.num, o.gen, FileKey.value, E)
                ELSE [err |-> "", key |-> <<>>]} :
     \E d \in {IF FileKey.known /\ k.err = "" THEN decpdfrun_string(o.str, k.key, E)
                ELSE [err |-> "", how |-> "plain", str |-> o.str]} :
     \E read \in {[resolved |-> TRUE, num |-> o.num, gen |-> o.gen,
                    isStream |-> o.isStream, Type |-> o.Type,
                    str |-> o.str, how |-> "plain", key |-> Undefined,
                    StreamKey |-> Undefined]} :
       /\ IF ~FileKey.known
          THEN /\ object' = read /\ pc' = pc /\ error' = error
          ELSE IF k.err # ""
          THEN /\ object' = NoObject /\ pc' = "resolve_error" /\ error' = k.err
          ELSE IF d.err # ""
          THEN /\ object' = NoObject /\ pc' = "resolve_error" /\ error' = d.err
          ELSE /\ object' = [read EXCEPT !.str = d.str, !.how = d.how,
                                         !.key = Defined(k.key),
                                         !.StreamKey = IF StreamKeyWanted(o, E)
                                                       THEN Defined(k.key) ELSE Undefined]
               /\ pc' = pc /\ error' = error
       /\ FileKey' = IF FileKey.known /\ k.err = "" THEN Defined(k.key) ELSE FileKey
       /\ UNCHANGED <<Trailer, systemdict, PDFPassword, branch, calls>>
  /\ stream' = NoStream
  /\ UNCHANGED <<stackvars, derived>>

(* pdf_run_resolve without the test of line 1054 for FileKey *)
RunResolve_without_where(o) ==
  /\ pc = "open"
  /\ \E E \in {Trailer.Encrypt} :
     \E k \in {computeobjkey(o.num, o.gen, FileKey.value, E)} :
     \E d \in {IF k.err = "" THEN decpdfrun_string(o.str, k.key, E)
                ELSE [err |-> "", how |-> "plain", str |-> o.str]} :
     \E read \in {[resolved |-> TRUE, num |-> o.num, gen |-> o.gen,
                    isStream |-> o.isStream, Type |-> o.Type,
                    str |-> o.str, how |-> "plain", key |-> Undefined,
                    StreamKey |-> Undefined]} :
       /\ IF k.err # ""
          THEN /\ object' = NoObject /\ pc' = "resolve_error" /\ error' = k.err
          ELSE IF d.err # ""
          THEN /\ object' = NoObject /\ pc' = "resolve_error" /\ error' = d.err
          ELSE /\ object' = [read EXCEPT !.str = d.str, !.how = d.how,
                                         !.key = Defined(k.key),
                                         !.StreamKey = IF StreamKeyWanted(o, E)
                                                       THEN Defined(k.key) ELSE Undefined]
               /\ pc' = pc /\ error' = error
       /\ UNCHANGED <<Trailer, systemdict, PDFPassword, FileKey, branch, calls>>
  /\ stream' = NoStream
  /\ UNCHANGED <<stackvars, derived>>

(* pdf_run_resolve on object o of the open document *)
RunResolve(o) ==
  /\ pc = "open"
  /\ \E E \in {Trailer.Encrypt} :
     \E k \in {IF FileKey.known THEN computeobjkey(o.num, o.gen, FileKey.value, E)
                ELSE [err |-> "", key |-> <<>>]} :
     \E d \in {IF FileKey.known /\ k.err = "" THEN decpdfrun_string(o.str, k.key, E)
                ELSE [err |-> "", how |-> "plain", str |-> o.str]} :
     \E read \in {[resolved |-> TRUE, num |-> o.num, gen |-> o.gen,
                    isStream |-> o.isStream, Type |-> o.Type,
                    str |-> o.str, how |-> "plain", key |-> Undefined,
                    StreamKey |-> Undefined]} :
       /\ IF ~FileKey.known
          THEN /\ object' = read /\ pc' = pc /\ error' = error
          ELSE IF k.err # ""
          THEN /\ object' = NoObject /\ pc' = "resolve_error" /\ error' = k.err
          ELSE IF d.err # ""
          THEN /\ object' = NoObject /\ pc' = "resolve_error" /\ error' = d.err
          ELSE /\ object' = [read EXCEPT !.str = d.str, !.how = d.how,
                                         !.key = Defined(k.key),
                                         !.StreamKey = IF StreamKeyWanted(o, E)
                                                       THEN Defined(k.key) ELSE Undefined]
               /\ pc' = pc /\ error' = error
       /\ UNCHANGED <<Trailer, systemdict, PDFPassword, FileKey, branch, calls>>
  /\ stream' = NoStream
  /\ UNCHANGED <<stackvars, derived>>

(* pdf_decrypt_stream removing the StreamKey it has read *)
DecryptStream_consuming ==
  /\ pc = "open"
  /\ object.resolved /\ object.isStream
  /\ \E r \in {pdf_decrypt_stream(object, Trailer.Encrypt)} :
       IF r.err # ""
       THEN /\ stream' = NoStream /\ pc' = "resolve_error" /\ error' = r.err
       ELSE /\ stream' = [opened |-> TRUE, filter |-> r.filter, key |-> r.key]
            /\ pc' = pc /\ error' = error
  /\ object' = [object EXCEPT !.StreamKey = Undefined]
  /\ UNCHANGED <<Trailer, systemdict, PDFPassword, FileKey, branch, calls>>
  /\ UNCHANGED <<stackvars, derived>>

(* pdf_decrypt_stream on the stream of the resolved object *)
DecryptStream ==
  /\ pc = "open"
  /\ object.resolved /\ object.isStream
  /\ \E r \in {pdf_decrypt_stream(object, Trailer.Encrypt)} :
       IF r.err # ""
       THEN /\ stream' = NoStream /\ pc' = "resolve_error" /\ error' = r.err
       ELSE /\ stream' = [opened |-> TRUE, filter |-> r.filter, key |-> r.key]
            /\ pc' = pc /\ error' = error
  /\ UNCHANGED <<Trailer, systemdict, PDFPassword, FileKey, branch, calls, object>>
  /\ UNCHANGED <<stackvars, derived>>

Next ==
  \/ Inspect
  \/ CheckEmpty
  \/ CheckSupplied
  \/ \E o \in Objects : RunResolve(o)
  \/ DecryptStream

Spec == Init /\ [][Next]_vars

NextAuth == Inspect \/ CheckEmpty \/ CheckSupplied

SpecAuth == InitAuth /\ [][NextAuth]_vars

(***************************************************************************)
(* computeobjkey, .decpdfrun, pdf_run_resolve and pdf_decrypt_stream on    *)
(* their own: every Encrypt dictionary they branch on, every length of     *)
(* FileKey, and object and generation numbers that fill each byte.         *)
(***************************************************************************)
KeyLengths == 5..32

(* the lengths of the keys that pdf_check_password returns *)
CheckedKeyLengths == {5, 16, 32}

(* object and generation numbers: the least, a pair whose bytes differ,    *)
(* and the least with 2^24 and 2^16 added                                  *)
KeyNumbers == {<<1, 0>>, <<66051, 513>>, <<16777217, 65536>>}
KeyObjects ==
  { [num |-> n[1], gen |-> n[2], isStream |-> o.isStream, Type |-> o.Type,
     str |-> SampleString] :
      n \in KeyNumbers,
      o \in {k \in [isStream : BOOLEAN, Type : {"absent", "Metadata"}] :
               ~k.isStream => k.Type = "absent"} }

(* the revisions and versions: those written, and revision 5 with a        *)
(* version that derives object keys                                        *)
KeyPairs == WrittenPairs \cup {<<5, 4>>}

KeyFilterParams ==
  { f \in [Filter : {"Standard"},
           StmF : {"absent", "Identity", "StdCF", "MyCF"},
           StrF : {"absent", "Identity", "StdCF", "MyCF"},
           CF : {"absent", "wrongtype", "dict"},
           StdCF : {"absent", "dict"},
           AuthEvent : {"absent"},
           CFM : {"absent", "V2", "AESV2", "AESV3"},
           MyCFM : {"absent", "AESV2"}] :
      /\ f.CF # "dict" => f.StdCF = "absent" /\ f.MyCFM = "absent"
      /\ f.StdCF = "dict" <=> f.CFM # "absent" }

(* the file keys: none, one of each length that pdf_check_password returns *)
(* with every dictionary, and one of every other length with the           *)
(* dictionaries whose streams and strings both go through StdCF            *)
InitKey ==
  /\ \E c \in {k \in CryptoParams : /\ <<k.R, k.V>> \in KeyPairs
                                     /\ k.EncryptMetadata # "true"
                                     /\ k.user = EmptyPassword
                                     /\ k.permsOK},
        f \in KeyFilterParams :
        /\ Trailer = MakeTrailer(Produced[c], f)
        /\ FileKey \in {Undefined}
                      \cup {Defined(getinterval(ProducerFileKey, 0, n)) :
                              n \in IF f.StmF = "StdCF" /\ f.StrF = "StdCF"
                                       /\ f.CFM \in {"V2", "AESV2"} /\ f.MyCFM = "absent"
                                    THEN KeyLengths ELSE CheckedKeyLengths}
  /\ systemdict = NoOptional
  /\ PDFPassword = Undefined
  /\ pc = "open"
  /\ branch = (IF FileKey.known THEN "verify" ELSE "noverify")
  /\ error = ""
  /\ calls = <<>>
  /\ object = NoObject
  /\ stream = NoStream
  /\ derived = NoDerived
  /\ StackIdle

NextKey ==
  \/ \E o \in KeyObjects : RunResolve(o)
  \/ DecryptStream

SpecKey == InitKey /\ [][NextKey]_vars

(***************************************************************************)
(* pdf_compute_encryption_key on its own: every revision below 5 with      *)
(* every version, Length and EncryptMetadata, and every password.          *)
(***************************************************************************)
DeriveParams ==
  [R : 2..4, V : {1, 2, 4}, Length : {NoInt, 40, 64, 128},
   EncryptMetadata : {"absent", "true", "false"},
   user : {EmptyPassword, UserPassword}, owner : {OwnerPassword},
   permsOK : {TRUE}]

NoFilters ==
  [Filter |-> "Standard", StmF |-> "absent", StrF |-> "absent", CF |-> "absent",
   StdCF |-> "absent", AuthEvent |-> "absent", CFM |-> "absent", MyCFM |-> "absent"]

InitDerive ==
  /\ \E c \in DeriveParams : Trailer = MakeTrailer(ProduceCrypto(c), NoFilters)
  /\ systemdict = NoOptional
  /\ PDFPassword \in {Defined(p) : p \in Passwords}
  /\ FileKey = Undefined
  /\ pc = "pdf_compute_encryption_key"
  /\ branch = "none"
  /\ error = ""
  /\ calls = <<>>
  /\ object = NoObject
  /\ stream = NoStream
  /\ derived = NoDerived
  /\ StackIdle

(* <password> pdf_compute_encryption_key <key> *)
ComputeEncryptionKey ==
  /\ pc = "pdf_compute_encryption_key"
  /\ derived' = [known |-> TRUE,
                 hashed |-> pdf_compute_encryption_key_buffer(PDFPassword.value, Trailer),
                 key |-> pdf_compute_encryption_key(PDFPassword.value, Trailer)]
  /\ pc' = "returned"
  /\ UNCHANGED <<Trailer, systemdict, PDFPassword, FileKey, branch, error, calls,
                 object, stream, stackvars>>

NextDerive == ComputeEncryptionKey

SpecDerive == InitDerive /\ [][NextDerive]_vars

(***************************************************************************)
(* The properties of pdf_process_Encrypt and pdf_check_password.           *)
(***************************************************************************)
Encrypt == Trailer.Encrypt

(* StmF or StrF is Identity, written out or by default *)
IsIdentity(f) == f = "absent" \/ f = "Identity"

(* pdf_process_Encrypt has returned or signalled an error *)
Finished == pc \notin {"pdf_process_Encrypt", "check_empty", "check_supplied"}

(* a dictionary pdf_process_Encrypt reads without signalling an error:     *)
(* the Standard filter, and CF, StdCF and AuthEvent of the right types     *)
WellFormed ==
  /\ Encrypt.Filter = "Standard"
  /\ Encrypt.V >= 4 => /\ Encrypt.CF # "wrongtype"
                       /\ Encrypt.StdCF # "wrongtype"
                       /\ Encrypt.AuthEvent # "wrongtype"

(* V >= 4, StmF and StrF Identity, and a crypt filter StdCF *)
IdentityWithStdCF ==
  /\ Encrypt.Filter = "Standard"
  /\ Encrypt.V >= 4
  /\ IsIdentity(Encrypt.StmF) /\ IsIdentity(Encrypt.StrF)
  /\ Encrypt.CF = "dict" /\ Encrypt.StdCF = "dict"

(* every check made so far, by any pdf_check_password call *)
AllChecks ==
  UNION { { calls[i].checks[j].result : j \in 1..Len(calls[i].checks) } :
          i \in 1..Len(calls) }

(* C1: FileKey is defined only with the key of a pdf_check_password call   *)
(* that reported success; when verification is run and every call made    *)
(* (the empty password, then PDFPassword if given) reported failure,       *)
(* pdf_process_Encrypt ends with an error and FileKey stays undefined.     *)
C1_FileKeyOnlyFromSuccess ==
  /\ FileKey.known =>
       \E i \in 1..Len(calls) : /\ calls[i].result.ok
                                /\ calls[i].result.err = ""
                                /\ calls[i].result.key = FileKey.value
  /\ (/\ branch = "verify" /\ Finished
      /\ \A i \in 1..Len(calls) : ~calls[i].result.ok) =>
       /\ pc = "error" /\ error # "" /\ ~FileKey.known
       /\ Len(calls) = (IF PDFPassword.known /\ calls[1].result.err = "" THEN 2 ELSE 1)

C1_Witness ==
  /\ pc = "error" /\ error = "invalidfileaccess" /\ ~FileKey.known
  /\ Len(calls) = 2 /\ ~calls[1].result.ok /\ ~calls[2].result.ok

(* the Encrypt dictionaries for which no password is required: V >= 4,     *)
(* StmF and StrF Identity, and an AuthEvent of StdCF that names an event   *)
(* other than DocOpen                                                      *)
Waived == IdentityWithStdCF /\ Encrypt.AuthEvent \notin {"absent", "wrongtype", "DocOpen"}

(* C2 as stated: the document is open for object resolution only with     *)
(* FileKey established.                                                    *)
C2_OpenOnlyWithFileKey ==
  pc \in {"open", "resolve_error"} => FileKey.known

(* C2, amended: processing ends with FileKey established, or with an error *)
(* and the document not opened, or, when no password is required and none  *)
(* is given, with the document opened and FileKey undefined; then nothing  *)
(* is decrypted: no object gets a StreamKey, strings are left as read and  *)
(* no decryption filter is installed.                                      *)
C2_Outcomes ==
  /\ pc = "error" => /\ error # "" /\ ~FileKey.known
                     /\ ~object.resolved /\ ~stream.opened
  /\ pc \in {"open", "resolve_error"} =>
       \/ FileKey.known
       \/ /\ Waived /\ ~PDFPassword.known
          /\ branch = "noverify" /\ calls = <<>>
          /\ pc = "open" /\ error = ""
          /\ object.resolved =>
               /\ object.how = "plain" /\ object.str = SampleString
               /\ ~object.StreamKey.known
          /\ stream.opened => stream.filter = "none"

C2_Witness ==
  /\ pc = "open" /\ ~FileKey.known
  /\ object.resolved /\ stream.opened

(* the Encrypt dictionaries C3 is about *)
RequiredCase ==
  \/ Encrypt.V < 4
  \/ ~IsIdentity(Encrypt.StmF) \/ ~IsIdentity(Encrypt.StrF)
  \/ Encrypt.CF = "absent" \/ Encrypt.StdCF = "absent" \/ Encrypt.AuthEvent = "absent"

(* C3: with V < 4, or StmF or StrF other than Identity, or CF, StdCF or    *)
(* AuthEvent absent, the branch without verification is never taken, and   *)
(* unless the dictionary is malformed (which ends pdf_process_Encrypt with *)
(* an error before it decides) the password is checked.                    *)
C3_RequiredMeansVerified ==
  RequiredCase =>
    /\ branch # "noverify"
    /\ (pc # "pdf_process_Encrypt" /\ WellFormed) => branch = "verify"
    /\ (Finished /\ WellFormed) =>
         /\ Len(calls) >= 1
         /\ calls[1].source = "empty" /\ calls[1].password = EmptyPassword
    /\ pc = "open" => FileKey.known

C3_Witness ==
  /\ Encrypt.Filter = "Standard" /\ Encrypt.V >= 4
  /\ IsIdentity(Encrypt.StmF) /\ IsIdentity(Encrypt.StrF)
  /\ Encrypt.CF = "dict" /\ Encrypt.StdCF = "absent"
  /\ ~PDFPassword.known
  /\ branch = "verify" /\ Len(calls) = 1 /\ pc = "open"

(* the case of C4 *)
DocOpenCase == IdentityWithStdCF /\ Encrypt.AuthEvent = "DocOpen" /\ ~PDFPassword.known

(* C4 as stated: with AuthEvent DocOpen and no PDFPassword no check is run *)
(* and the document opens.                                                 *)
C4_DocOpenWaives ==
  (DocOpenCase /\ pc # "pdf_process_Encrypt") =>
    /\ branch = "noverify" /\ calls = <<>> /\ pc = "open"

(* C4, amended: with V >= 4, StmF and StrF Identity, StdCF with AuthEvent  *)
(* DocOpen and no PDFPassword, the password is required: the empty         *)
(* password is checked, and the document opens only if that check          *)
(* succeeds; otherwise invalidfileaccess or the check's error is signalled.*)
C4_DocOpenRequires ==
  (DocOpenCase /\ pc # "pdf_process_Encrypt") =>
    /\ branch = "verify"
    /\ Finished =>
         /\ Len(calls) = 1 /\ calls[1].source = "empty"
         /\ pc = "open" <=> calls[1].result.ok
         /\ pc = "open" => FileKey = Defined(calls[1].result.key)
         /\ pc # "open" => pc = "error" /\ error # "" /\ ~FileKey.known

C4_Witness ==
  /\ DocOpenCase /\ branch = "verify"
  /\ Len(calls) = 1 /\ ~calls[1].result.ok
  /\ pc = "error" /\ error = "invalidfileaccess"

(* the case of C5 *)
NoAuthEventCase == IdentityWithStdCF /\ Encrypt.AuthEvent = "absent"

(* C5 as stated: with no AuthEvent in StdCF isRequired is false and, with  *)
(* no PDFPassword, no check is run.                                        *)
C5_NoAuthEventWaives ==
  NoAuthEventCase =>
    /\ ~isRequired(Encrypt).required
    /\ (~PDFPassword.known /\ pc # "pdf_process_Encrypt") =>
         branch = "noverify" /\ calls = <<>>

(* C5, amended: with V >= 4, StmF and StrF Identity and a StdCF without    *)
(* AuthEvent, isRequired is true: also when no PDFPassword is given the    *)
(* empty password is checked.                                              *)
C5_NoAuthEventRequires ==
  NoAuthEventCase =>
    /\ isRequired(Encrypt) = [err |-> "", required |-> TRUE]
    /\ pc # "pdf_process_Encrypt" => branch = "verify"
    /\ Finished => Len(calls) >= 1 /\ calls[1].source = "empty"
    /\ (Finished /\ ~PDFPassword.known) => Len(calls) = 1

C5_Witness ==
  /\ NoAuthEventCase /\ ~PDFPassword.known
  /\ branch = "verify" /\ Len(calls) = 1 /\ calls[1].source = "empty"
  /\ Finished

(* C6: with a PDFPassword the branch without verification is never taken:  *)
(* whatever the crypt filters say, the empty password is checked and, if   *)
(* it fails, PDFPassword is (a malformed dictionary ends                   *)
(* pdf_process_Encrypt with an error before either).                       *)
C6_PDFPasswordForcesVerification ==
  PDFPassword.known =>
    /\ branch # "noverify"
    /\ (pc # "pdf_process_Encrypt" /\ WellFormed) => branch = "verify"
    /\ (Finished /\ WellFormed) =>
         /\ Len(calls) >= 1 /\ calls[1].source = "empty"
         /\ (~calls[1].result.ok /\ calls[1].result.err = "") =>
              /\ Len(calls) = 2
              /\ calls[2].source = "PDFPassword"
              /\ calls[2].password = PDFPassword.value

C6_Witness ==
  /\ PDFPassword.known /\ Waived
  /\ branch = "verify" /\ Len(calls) = 2 /\ pc = "open"

(* C7: for R in 2..4 a pdf_check_password call checks the password as the  *)
(* user password first and as the owner password only if that failed; it   *)
(* returns the user check's success and key, else what the owner check     *)
(* returned.                                                               *)
C7_UserThenOwner ==
  Encrypt.R \in 2..4 =>
    \A i \in 1..Len(calls) :
      LET c == calls[i]
          u == c.checks[1]
      IN  /\ u.proc = "pdf_check_pre_r5_user_password" /\ u.password = c.password
          /\ IF u.result.ok
             THEN /\ Len(c.checks) = 1
                  /\ c.result.ok /\ c.result.key = u.result.key
             ELSE /\ Len(c.checks) = 2
                  /\ c.checks[2].proc = "pdf_check_pre_r5_owner_password"
                  /\ c.checks[2].password = c.password
                  /\ c.result = c.checks[2].result

C7_Witness ==
  /\ Encrypt.R \in 2..4
  /\ Len(calls) = 2 /\ Len(calls[2].checks) = 2
  /\ ~calls[2].checks[1].result.ok /\ calls[2].checks[2].result.ok
  /\ FileKey = Defined(calls[2].checks[2].result.key)

(* C8: for R 5 and 6 a pdf_check_password call checks the password as      *)
(* given; only if that check returns false and .locale_to_utf8 is defined  *)
(* it checks the converted password, once; there is no third check, and    *)
(* without .locale_to_utf8 the call returns false after the first.         *)
C8_OneReencodedRetry ==
  Encrypt.R \in {5, 6} =>
    \A i \in 1..Len(calls) :
      LET c     == calls[i]
          first == c.checks[1]
          retry == ~first.result.ok /\ first.result.err = ""
                   /\ systemdict.locale_to_utf8
      IN  /\ Len(c.checks) = (IF retry THEN 2 ELSE 1)
          /\ first.password = c.password
          /\ retry => c.checks[2].password = locale_to_utf8(c.password)
          /\ \A j \in 1..Len(c.checks) :
               c.checks[j].proc = (IF Encrypt.R = 5 THEN "pdf_check_r5_password"
                                   ELSE "check_r6_password")
          /\ c.result = c.checks[Len(c.checks)].result
          /\ (~first.result.ok /\ first.result.err = "" /\ ~systemdict.locale_to_utf8)
               => ~c.result.ok /\ c.result.err = ""

C8_Witness ==
  /\ Encrypt.R = 5 /\ systemdict.locale_to_utf8
  /\ Len(calls) = 2 /\ Len(calls[2].checks) = 2
  /\ calls[2].checks[2].password # calls[2].password
  /\ calls[2].checks[2].result.ok
  /\ FileKey.known

(* bytes 9..11 of a decrypted Perms string are the marker adb *)
HasMarker(perms) == Len(perms) >= 12 /\ getinterval(perms, 9, 3) = <<97, 100, 98>>

(* C9: for R 5 and 6, a check whose hash comparison succeeded but whose    *)
(* decrypted Perms string does not carry adb at bytes 9..11 signals an     *)
(* error: it reports no success and yields no key, and                     *)
(* pdf_process_Encrypt ends with that error and without FileKey.           *)
C9_PermsMismatchIsError ==
  Encrypt.R \in {5, 6} =>
    \A i \in 1..Len(calls) : \A j \in 1..Len(calls[i].checks) :
      LET k == calls[i].checks[j].result
      IN  (k.hash /\ ~HasMarker(k.perms)) =>
            /\ k.err # "" /\ ~k.ok /\ k.key = <<>>
            /\ j = Len(calls[i].checks) /\ calls[i].result = k
            /\ i = Len(calls)
            /\ pc = "error" /\ error = k.err /\ ~FileKey.known

C9_Witness ==
  /\ Encrypt.R = 5 /\ pc = "error" /\ error = "rangecheck"
  /\ \E k \in AllChecks : k.hash /\ ~HasMarker(k.perms) /\ k.err = "rangecheck"

(* C10: FileKey is written once: once defined, no step (resolving an       *)
(* object, with its computeobjkey and .decpdfrun, or pdf_decrypt_stream)   *)
(* changes it, and pdf_process_Encrypt defines it as its last step.        *)
C10_FileKeyWriteOnce ==
  [][/\ FileKey.known => FileKey' = FileKey
     /\ FileKey' # FileKey => pc \in {"check_empty", "check_supplied"} /\ pc' = "open"]_vars

C10_Witness ==
  /\ FileKey.known /\ object.resolved /\ object.StreamKey.known
  /\ object.StreamKey.value # FileKey.value
  /\ stream.opened /\ stream.filter # "none"

(***************************************************************************)
(* The properties of computeobjkey, .decpdfrun, pdf_run_resolve and        *)
(* pdf_decrypt_stream.                                                     *)
(***************************************************************************)
(* C11: without FileKey, resolving an object decrypts no string and        *)
(* attaches no StreamKey (no object key is computed at all), and opening   *)
(* its stream adds no decryption filter.                                   *)
C11_NoFileKeyNoDecryption ==
  ~FileKey.known =>
    /\ pc = "open"
    /\ object.resolved => /\ object.how = "plain" /\ object.str = SampleString
                          /\ ~object.key.known /\ ~object.StreamKey.known
    /\ stream.opened => stream.filter = "none" /\ stream.key = <<>>

C11_Witness ==
  /\ ~FileKey.known /\ Encrypt.R < 4
  /\ object.resolved /\ object.isStream /\ stream.opened

(* C12: with V 5 the object key is FileKey itself, for every object and    *)
(* generation number, and so is the StreamKey of a stream.                 *)
C12_V5ObjectKeyIsFileKey ==
  (Encrypt.V = 5 /\ FileKey.known /\ object.resolved) =>
    /\ object.key = FileKey
    /\ object.StreamKey.known => object.StreamKey = FileKey

C12_Witness ==
  /\ Encrypt.V = 5 /\ FileKey.known /\ object.resolved
  /\ object.num = 66051 /\ object.gen = 513
  /\ object.StreamKey.known /\ object.StreamKey.value = FileKey.value

(* C13: with V other than 5 the object key is min(length of FileKey + 5,   *)
(* 16) bytes long, for FileKey of 5 to 32 bytes and every object and       *)
(* generation number.                                                      *)
C13_ObjectKeyLength ==
  (Encrypt.V # 5 /\ FileKey.known /\ object.resolved) =>
    /\ object.key.known
    /\ Len(object.key.value) = Min(Len(FileKey.value) + 5, 16)
    /\ Len(object.key.value) = (IF Len(FileKey.value) < 11
                                THEN Len(FileKey.value) + 5 ELSE 16)

C13_Witness ==
  /\ Encrypt.V # 5 /\ FileKey.known /\ Len(FileKey.value) = 7
  /\ object.resolved /\ Len(object.key.value) = 12

(* the CFM of the crypt filter of that name in CF, "absent" without one *)
NamedCFM(name) ==
  IF Encrypt.CF # "dict" THEN "absent"
  ELSE IF name = "StdCF" THEN Encrypt.CFM
  ELSE IF name = "MyCF" THEN Encrypt.MyCFM
  ELSE "absent"

(* the object key of the resolved object as MD5 makes it from FileKey, the *)
(* object number in 3 bytes and the generation in 2, low byte first, and   *)
(* the letters sAlT if salted                                              *)
ObjectKeyOf(salted) ==
  getinterval(md5(FileKey.value
                  \o << object.num % 256, (object.num \div 256) % 256,
                        (object.num \div 65536) % 256,
                        object.gen % 256, (object.gen \div 256) % 256 >>
                  \o (IF salted THEN <<115, 65, 108, 84>> ELSE <<>>)),
              0, Min(Len(FileKey.value) + 5, 16))

(* C14: with V other than 5 the key that decrypts a string, and the key    *)
(* that decrypts a stream, is made from FileKey, object number and         *)
(* generation with sAlT appended exactly when the method that decrypts     *)
(* that string, or that stream, is AESV2.                                  *)
C14_SaltFollowsMethodUsed ==
  (Encrypt.V # 5 /\ FileKey.known /\ object.resolved) =>
    /\ object.how # "plain" =>
         object.key.value =
           ObjectKeyOf(object.how = "aes" /\ NamedCFM(Encrypt.StrF) = "AESV2")
    /\ (stream.opened /\ stream.filter # "none") =>
         stream.key =
           ObjectKeyOf(stream.filter = "AESDecode" /\ NamedCFM(Encrypt.StmF) = "AESV2")

(* C15 as stated: at R 3 every resolved stream gets a StreamKey, whatever  *)
(* EncryptMetadata and its Type are.                                       *)
C15_R3IgnoresEncryptMetadata ==
  (Encrypt.R = 3 /\ FileKey.known /\ object.resolved /\ object.isStream) =>
    object.StreamKey.known

(* C15, amended: at R below 3 every resolved stream gets a StreamKey; at   *)
(* R 3 it gets one unless EncryptMetadata is false and its Type is         *)
(* Metadata, and then it gets none.                                        *)
C15_R3HonoursEncryptMetadata ==
  (Encrypt.R <= 3 /\ FileKey.known /\ object.resolved /\ object.isStream) =>
    /\ object.StreamKey.known <=>
         ~(Encrypt.R = 3 /\ Encrypt.EncryptMetadata = "false" /\ object.Type = "Metadata")
    /\ object.StreamKey.known => object.StreamKey = object.key

C15_Witness ==
  /\ Encrypt.R = 3 /\ Encrypt.EncryptMetadata = "false" /\ FileKey.known
  /\ object.resolved /\ object.isStream /\ object.Type = "Metadata"
  /\ ~object.StreamKey.known

(* C16: at R 4 and above a resolved stream gets no StreamKey if            *)
(* EncryptMetadata is false and its Type is Metadata, or if StmF is absent *)
(* or Identity; otherwise it gets the object key as its StreamKey.         *)
C16_R4StreamKeyDecision ==
  (Encrypt.R >= 4 /\ FileKey.known /\ object.resolved /\ object.isStream) =>
    IF \/ Encrypt.EncryptMetadata = "false" /\ object.Type = "Metadata"
       \/ IsIdentity(Encrypt.StmF)
    THEN object.StreamKey = Undefined
    ELSE object.StreamKey.known /\ object.StreamKey = object.key

C16_Witness ==
  /\ Encrypt.R >= 4 /\ FileKey.known /\ Encrypt.EncryptMetadata = "false"
  /\ Encrypt.StmF = "absent"
  /\ object.resolved /\ object.isStream /\ object.Type = "absent"
  /\ ~object.StreamKey.known

(* C17: a string is RC4-decrypted with the object key at R below 4; at R   *)
(* 4 and above it is left as read when StrF is absent or Identity,         *)
(* AES-decrypted when the crypt filter that StrF names, of whatever name,  *)
(* has CFM AESV2 or AESV3, and RC4-decrypted otherwise.                    *)
C17_StrFMethodDecides ==
  (FileKey.known /\ object.resolved) =>
    IF Encrypt.R < 4
    THEN object.how = "arc4" /\ object.str = arc4decode(SampleString, object.key.value)
    ELSE IF IsIdentity(Encrypt.StrF)
    THEN object.how = "plain" /\ object.str = SampleString
    ELSE IF NamedCFM(Encrypt.StrF) \in {"AESV2", "AESV3"}
    THEN object.how = "aes" /\ object.str = aesdecode(SampleString, object.key.value)
    ELSE object.how = "arc4" /\ object.str = arc4decode(SampleString, object.key.value)

C19_StreamKeyConsumed ==
  stream.opened => ~object.StreamKey.known

(* C19, amended: pdf_decrypt_stream reads the StreamKey and leaves it in   *)
(* the dictionary: after the stream is opened with a decryption filter the *)
(* object still has the StreamKey the filter was given, and opening the    *)
(* stream again finds it and chooses the same filter.                      *)
C19_StreamKeyStays ==
  (stream.opened /\ stream.filter # "none") =>
    /\ object.StreamKey = Defined(stream.key)
    /\ \A r \in {pdf_decrypt_stream(object, Encrypt)} :
         r.err = "" /\ r.filter = stream.filter /\ r.key = stream.key

C19_Witness ==
  /\ stream.opened /\ stream.filter = "ArcfourDecode"
  /\ object.StreamKey.known /\ object.StreamKey.value = stream.key

(* C20 as stated: a Filter other than Standard, or an R outside 2..6,      *)
(* always ends pdf_process_Encrypt with an error.                          *)
C20_UnsupportedAlwaysError ==
  (Finished /\ (Encrypt.Filter # "Standard" \/ Encrypt.R \notin 2..6)) =>
    pc = "error"

(* C20, amended: a Filter other than Standard always ends                  *)
(* pdf_process_Encrypt with the error undefined, before any password is    *)
(* checked; an R outside 2..6 ends it with an error whenever a password is *)
(* verified, in the first pdf_check_password call, and otherwise (no       *)
(* password required and none supplied) the document is opened without     *)
(* FileKey.                                                                *)
C20_UnsupportedErrors ==
  Finished =>
    /\ Encrypt.Filter # "Standard" =>
         pc = "error" /\ error = "undefined" /\ calls = <<>> /\ ~FileKey.known
    /\ (Encrypt.Filter = "Standard" /\ Encrypt.R \notin 2..6) =>
         /\ ~FileKey.known
         /\ IF pc = "error"
            THEN \/ branch = "none" /\ calls = <<>>
                 \/ /\ branch = "verify" /\ error = "undefined" /\ Len(calls) = 1
                    /\ calls[1].result.err = "undefined"
            ELSE /\ pc = "open" /\ branch = "noverify" /\ calls = <<>>
                 /\ Waived /\ ~PDFPassword.known
         /\ (PDFPassword.known \/ ~Waived) => pc = "error"

C20_Witness ==
  /\ Encrypt.Filter = "Standard" /\ Encrypt.R = 7 /\ PDFPassword.known
  /\ Waived /\ pc = "error" /\ error = "undefined" /\ Len(calls) = 1

(***************************************************************************)
(* Further properties of pdf_process_Encrypt and the password checks.      *)
(***************************************************************************)
(* CF, StdCF or AuthEvent is present with a value of the wrong type *)
WrongType ==
  \/ Encrypt.CF = "wrongtype" \/ Encrypt.StdCF = "wrongtype"
  \/ Encrypt.AuthEvent = "wrongtype"

(* C21 as stated: with CF, StdCF or AuthEvent of the wrong type,           *)
(* pdf_process_Encrypt ends with an error, whatever V is.                  *)
C21_WrongTypeAlwaysFails ==
  (Finished /\ WrongType) => pc = "error"

(* C21, amended: with the Standard filter and V of 4 or more, CF, StdCF or *)
(* AuthEvent of the wrong type ends pdf_process_Encrypt with the error     *)
(* invalidfileaccess before any password is checked; with V below 4 these  *)
(* entries are not looked at and the password is verified.                 *)
C21_WrongTypeFailsFromV4 ==
  (Finished /\ WrongType /\ Encrypt.Filter = "Standard") =>
    IF Encrypt.V >= 4
    THEN /\ pc = "error" /\ error = "invalidfileaccess"
         /\ branch = "none" /\ calls = <<>> /\ ~FileKey.known
    ELSE /\ branch = "verify" /\ Len(calls) >= 1
         /\ pc = "open" <=> FileKey.known

C21_Witness ==
  /\ Encrypt.V >= 4 /\ Encrypt.Filter = "Standard" /\ Encrypt.AuthEvent = "wrongtype"
  /\ IsIdentity(Encrypt.StmF) /\ IsIdentity(Encrypt.StrF)
  /\ pc = "error" /\ error = "invalidfileaccess" /\ calls = <<>>

(* C24: for R 2 to 4, a pdf_check_password call that succeeds through the  *)
(* owner check returns the key of the user check on the user password      *)
(* that unwrapping O with the owner key recovers, which is the key that    *)
(* pdf_check_password returns for that user password itself.               *)
C24_OwnerKeyIsUserKey ==
  Encrypt.R \in 2..4 =>
    \A i \in 1..Len(calls) :
      (Len(calls[i].checks) = 2 /\ calls[i].checks[2].result.ok) =>
        \E u \in {EmptyPassword, UserPassword} :
          /\ pdf_pad_key(u) = pdf_owner_unwrap(calls[i].password, Encrypt)
          /\ \A direct \in {CheckPassword(u, Trailer, systemdict)} :
               /\ Len(direct.checks) = 1
               /\ direct.checks[1].proc = "pdf_check_pre_r5_user_password"
               /\ direct.result.ok
               /\ direct.result.key = calls[i].result.key
          /\ calls[i].result.ok
          /\ Finished => FileKey = Defined(calls[i].result.key)

C24_Witness ==
  /\ Encrypt.R = 3 /\ Len(calls) = 2 /\ pc = "open"
  /\ calls[2].password = OwnerPassword
  /\ calls[2].checks[2].proc = "pdf_check_pre_r5_owner_password"
  /\ calls[2].checks[2].result.ok
  /\ FileKey.known
  /\ FileKey.value = CheckPassword(UserPassword, Trailer, systemdict).result.key

(* C28: the empty password is checked first and PDFPassword only after it  *)
(* failed; when the empty password authenticates, FileKey is its key, the  *)
(* document is opened and PDFPassword, right or wrong, is never checked.   *)
C28_EmptyPasswordFirst ==
  /\ Len(calls) <= 2
  /\ Len(calls) >= 1 =>
       /\ calls[1].source = "empty" /\ calls[1].password = EmptyPassword
       /\ calls[1].result.ok =>
            /\ Len(calls) = 1 /\ pc = "open" /\ error = ""
            /\ FileKey = Defined(calls[1].result.key)
  /\ Len(calls) = 2 =>
       /\ PDFPassword.known
       /\ calls[2].source = "PDFPassword" /\ calls[2].password = PDFPassword.value
       /\ ~calls[1].result.ok /\ calls[1].result.err = ""

C28_Witness ==
  /\ PDFPassword = Defined(WrongPassword)
  /\ Len(calls) = 1 /\ calls[1].result.ok
  /\ pc = "open" /\ FileKey.known
  /\ ~CheckPassword(WrongPassword, Trailer, systemdict).result.ok

(* C29: with V other than 5 the object key depends on the object number   *)
(* through its low 24 bits and on the generation through its low 16 bits:  *)
(* it is the key of the numbers reduced modulo 2^24 and 2^16.              *)
C29_ObjectKeyLowBits ==
  (Encrypt.V # 5 /\ FileKey.known /\ object.resolved) =>
    \A low \in {computeobjkey(object.num % 16777216, object.gen % 65536,
                              FileKey.value, Encrypt)} :
      low.err = "" /\ object.key = Defined(low.key)

C29_Witness ==
  /\ Encrypt.V # 5 /\ FileKey.known /\ object.resolved
  /\ object.num = 16777217 /\ object.gen = 65536
  /\ object.key.value = computeobjkey(1, 0, FileKey.value, Encrypt).key

(***************************************************************************)
(* The operand stack operators of the C part: index, .argindex and roll.   *)
(* The operand stack is a chain of blocks; osbot..osp are the refs of the  *)
(* top block and ostop is its last slot.                                   *)
(***************************************************************************)
MaxData == 5
MaxRoom == 3

gs_error_rangecheck == -15
gs_error_stackoverflow == -16
gs_error_stackunderflow == -17
gs_error_typecheck == -20

(* the remainder of C's % operator, which takes the sign of its left side *)
CRem(a, b) == IF a >= 0 THEN a % b ELSE -((-a) % b)

(* ref_stack_count: the refs of all blocks *)
ref_stack_count(st) == Len(st.refs)

(* ref_stack_index: a pointer to the ref idx below the top, in whichever   *)
(* block it is, 0 when the stack holds no such ref                         *)
ref_stack_index(st, idx) ==
  IF idx >= 0 /\ idx < Len(st.refs) THEN Len(st.refs) - idx ELSE 0

(* *(osp - k), which is a guard ref once osp - k is below osbot *)
at_osp(st, k) ==
  IF k < st.inblock THEN st.refs[Len(st.refs) - k] ELSE guard_value

(* check_type: typecheck for a ref of another type, stackunderflow for a   *)
(* guard                                                                   *)
check_type(rf, t) ==
  IF rf.type = t THEN 0
  ELSE IF rf.type = "invalid" THEN gs_error_stackunderflow
  ELSE gs_error_typecheck

(* pop(n): osp -= n *)
pop(st, n) ==
  [refs |-> SubSeq(st.refs, 1, Len(st.refs) - n),
   inblock |-> st.inblock - n, room |-> st.room + n, requested |-> st.requested]

(* the slots of the stack up to ostop *)
memory(st) == st.refs \o [p \in 1..st.room |-> guard_value]

(* the stack after pop(2) and the moves that left mem in its slots *)
popped(st, mem) ==
  [refs |-> SubSeq(mem, 1, Len(st.refs) - 2),
   inblock |-> st.inblock - 2, room |-> st.room + 2, requested |-> st.requested]

(* n times ref_assign(to, from), both pointers moving by step *)
RECURSIVE ref_assign_loop(_, _, _, _, _)
ref_assign_loop(mem, to, from, n, step) ==
  IF n = 0 THEN mem
  ELSE ref_assign_loop([mem EXCEPT ![to] = mem[from]], to + step, from + step,
                       n - 1, step)

memcpy(mem, dest, src, n) ==
  [p \in 1..Len(mem) |->
     IF p >= dest /\ p < dest + n THEN mem[p - dest + src] ELSE mem[p]]

(* <obj_n> ... <obj_0> <n> index <obj_n> ... <obj_0> <obj_n> *)
zindex(st) ==
  LET op == at_osp(st, 0)
      top == Len(st.refs)
      failed(c) == [code |-> c, stack |-> st]
      assigned(from) == [code |-> 0, stack |-> [st EXCEPT !.refs[top] = st.refs[from]]]
  IN  IF check_type(op, "integer") # 0 THEN failed(check_type(op, "integer"))
      ELSE IF op.value < 0 \/ op.value >= st.inblock - 1
      THEN (* Might be in an older stack block. *)
           IF op.value < 0 THEN failed(gs_error_rangecheck)
           ELSE IF ref_stack_index(st, op.value + 1) = 0
           THEN failed(gs_error_stackunderflow)
           ELSE assigned(ref_stack_index(st, op.value + 1))
      ELSE assigned(top - op.value - 1)

(* .argindex with the two error codes exchanged *)
zargindex_exchanged(st) ==
  LET r == zindex(st)
  IN  IF r.code = gs_error_stackunderflow /\ at_osp(r.stack, 0).value >= 0
      THEN [r EXCEPT !.code = gs_error_rangecheck]
      ELSE r

(* <obj_n> ... <obj_0> <n> .argindex <obj_n> ... <obj_0> <obj_n> *)
zargindex(st) ==
  LET r == zindex(st)
  IN  IF r.code = gs_error_rangecheck /\ at_osp(r.stack, 0).value >= 0
      THEN [r EXCEPT !.code = gs_error_stackunderflow]
      ELSE r

(* zroll, lines 135-142: mod brought into 0..count-1 in the multi-block path *)
mod_multi(mod, count) ==
  IF mod >= count THEN CRem(mod, count)
  ELSE IF mod < 0
  THEN (LET m == CRem(mod, count) IN IF m < 0 THEN m + count ELSE m)
  ELSE mod

(* zroll, lines 204-212: the same in the single-block path *)
mod_single(mod, count) ==
  IF mod < 0
  THEN (LET m1 == mod + count
        IN  IF m1 < 0
            THEN (LET m2 == CRem(m1, count) IN IF m2 < 0 THEN m2 + count ELSE m2)
            ELSE m1)
  ELSE IF mod >= count THEN CRem(mod, count)
  ELSE mod

(* zroll, case 1 *)
roll_one(st, count) ==
  LET op == Len(st.refs) - 2
      mem == memory(st)
      moved == ref_assign_loop(mem, op, op - 1, count - 1, -1)
  IN  [code |-> 0, path |-> "case_1",
       stack |-> popped(st, [moved EXCEPT ![op - (count - 1)] = mem[op]])]

(* zroll, case -1 *)
roll_minus_one(st, count) ==
  LET op == Len(st.refs) - 2
      to == op - count + 1
      mem == memory(st)
      moved == ref_assign_loop(mem, to, to + 1, count - 1, 1)
  IN  [code |-> 0, path |-> "case_minus_1",
       stack |-> popped(st, [moved EXCEPT ![op] = mem[to]])]

(* roll_up that pops the operands before it looks for room *)
roll_up_popping_first(st, count, mod) ==
  LET op == Len(st.refs) - 2
      moved == ref_assign_loop(memory(st), op + mod, op, count, -1)
  IN  IF mod >= st.room + 2
      THEN [code |-> gs_error_stackoverflow, path |-> "move_up",
            stack |-> pop([st EXCEPT !.requested = mod], 2)]
      ELSE [code |-> 0, path |-> "move_up",
            stack |-> popped(st, memcpy(moved, op - count + 1, op + 1, mod))]

(* zroll, lines 214-223: Move everything up, then top elements down. *)
roll_up(st, count, mod) ==
  LET op == Len(st.refs) - 2
      moved == ref_assign_loop(memory(st), op + mod, op, count, -1)
  IN  IF mod >= st.room
      THEN [code |-> gs_error_stackoverflow, path |-> "move_up",
            stack |-> [st EXCEPT !.requested = mod]]
      ELSE [code |-> 0, path |-> "move_up",
            stack |-> popped(st, memcpy(moved, op - count + 1, op + 1, mod))]

(* roll_down without mod = count - mod *)
roll_down_same_mod(st, count, mod0) ==
  LET mod == mod0
      op == Len(st.refs) - 2
      to == op - count + 1
      copied == memcpy(memory(st), op + 1, to, mod)
  IN  IF mod >= st.room
      THEN [code |-> gs_error_stackoverflow, path |-> "move_down",
            stack |-> [st EXCEPT !.requested = mod]]
      ELSE [code |-> 0, path |-> "move_down",
            stack |-> popped(st, ref_assign_loop(copied, to, to + mod, count, 1))]

(* zroll, lines 225-236: Move bottom elements up, then everything down. *)
roll_down(st, count, mod0) ==
  LET mod == count - mod0
      op == Len(st.refs) - 2
      to == op - count + 1
      copied == memcpy(memory(st), op + 1, to, mod)
  IN  IF mod >= st.room
      THEN [code |-> gs_error_stackoverflow, path |-> "move_down",
            stack |-> [st EXCEPT !.requested = mod]]
      ELSE [code |-> 0, path |-> "move_down",
            stack |-> popped(st, ref_assign_loop(copied, to, to + mod, count, 1))]

(* zroll, lines 163-238: the data is in the top block *)
zroll_block(st) ==
  LET count == at_osp(st, 1).value
      mod == at_osp(st, 0).value
      general(m) == IF m <= count \div 2 THEN roll_up(st, count, m)
                    ELSE roll_down(st, count, m)
  IN  IF count <= 1 THEN [code |-> 0, path |-> "no_data", stack |-> pop(st, 2)]
      ELSE IF mod = 1 THEN roll_one(st, count)
      ELSE IF mod = -1 THEN roll_minus_one(st, count)
      ELSE general(mod_single(mod, count))

(* the paths of zroll *)
RollPaths ==
  {"entry", "no_data", "case_1", "case_minus_1", "move_up", "move_down", "chain"}

(* the operator returns *)
Returns(c, st, path) ==
  /\ code' = c
  /\ o_stack' = st
  /\ locals' = [NoLocals EXCEPT !.path = path]
  /\ op_pc' = "returned"

(* <obj_n-1> ... <obj_0> <n> <i> roll, up to the chain rotation or, when   *)
(* the data is in the top block, up to its return                          *)
ZrollCall ==
  /\ op_pc = "zroll"
  /\ called' = o_stack
  /\ LET op1 == at_osp(o_stack, 1)
         op == at_osp(o_stack, 0)
         block(r) == Returns(r.code, r.stack, r.path)
     IN  IF check_type(op1, "integer") # 0
         THEN Returns(check_type(op1, "integer"), o_stack, "entry")
         ELSE IF check_type(op, "integer") # 0
         THEN Returns(check_type(op, "integer"), o_stack, "entry")
         ELSE IF op1.value < 0 \/ op1.value > o_stack.inblock - 2
         THEN (* The data might span multiple stack blocks. *)
              IF op1.value < 0
              THEN Returns(gs_error_rangecheck, o_stack, "entry")
              ELSE IF op1.value + 2 > ref_stack_count(o_stack)
              THEN Returns(gs_error_stackunderflow, o_stack, "entry")
              ELSE IF op1.value <= 1
              THEN Returns(0, pop(o_stack, 2), "no_data")
              ELSE /\ locals' = [NoLocals EXCEPT
                                   !.path = "chain",
                                   !.count = op1.value,
                                   !.mod = mod_multi(op.value, op1.value),
                                   !.left = op1.value,
                                   !.assigned = [p \in 1..Len(o_stack.refs) |-> 0]]
                   /\ op_pc' = "chain_outer"
                   /\ UNCHANGED <<o_stack, code>>
         ELSE block(zroll_block(o_stack))
  /\ UNCHANGED pdfvars

(* ChainOuter without the left-- of line 151 *)
ChainOuter_without_decrement ==
  /\ op_pc = "chain_outer"
  /\ IF locals.left = 0
     THEN /\ o_stack' = pop(o_stack, 2)
          /\ code' = 0
          /\ op_pc' = "returned"
          /\ UNCHANGED locals
     ELSE \E elt \in {ref_stack_index(o_stack, locals.i + 2)} :
            IF elt = 0
            THEN /\ op_pc' = "fault"
                 /\ UNCHANGED <<o_stack, code, locals>>
            ELSE /\ locals' = [locals EXCEPT !.elt = elt,
                                             !.save = o_stack.refs[elt],
                                             !.j = locals.i]
                 /\ op_pc' = "chain_inner"
                 /\ UNCHANGED <<o_stack, code>>
  /\ UNCHANGED <<called, pdfvars>>

(* zroll, lines 144-151 and 160-161: the test of the outer loop, and either *)
(* the return or the start of the chain of element i.  A null elt cannot   *)
(* be read: the operator stops in a fault.                                 *)
ChainOuter ==
  /\ op_pc = "chain_outer"
  /\ IF locals.left = 0
     THEN /\ o_stack' = pop(o_stack, 2)
          /\ code' = 0
          /\ op_pc' = "returned"
          /\ UNCHANGED locals
     ELSE \E elt \in {ref_stack_index(o_stack, locals.i + 2)} :
            IF elt = 0
            THEN /\ op_pc' = "fault"
                 /\ UNCHANGED <<o_stack, code, locals>>
            ELSE /\ locals' = [locals EXCEPT !.elt = elt,
                                             !.save = o_stack.refs[elt],
                                             !.j = locals.i,
                                             !.left = @ - 1]
                 /\ op_pc' = "chain_inner"
                 /\ UNCHANGED <<o_stack, code>>
  /\ UNCHANGED <<called, pdfvars>>

(* zroll, lines 151-158: one turn of the inner loop, or its break with the *)
(* store of save and the i++ of the outer loop                             *)
ChainInner ==
  /\ op_pc = "chain_inner"
  /\ \E k \in {CRem(locals.j + locals.mod, locals.count)} :
       IF k = locals.i
       THEN /\ o_stack' = [o_stack EXCEPT !.refs[locals.elt] = locals.save]
            /\ locals' = [locals EXCEPT !.i = @ + 1,
                                        !.assigned[locals.elt] = @ + 1]
            /\ op_pc' = "chain_outer"
       ELSE \E next \in {ref_stack_index(o_stack, k + 2)} :
              IF next = 0
              THEN /\ op_pc' = "fault"
                   /\ UNCHANGED <<o_stack, locals>>
              ELSE /\ o_stack' = [o_stack EXCEPT !.refs[locals.elt] = o_stack.refs[next]]
                   /\ locals' = [locals EXCEPT !.j = k,
                                               !.elt = next,
                                               !.left = @ - 1,
                                               !.assigned[locals.elt] = @ + 1]
                   /\ op_pc' = "chain_inner"
  /\ UNCHANGED <<code, called, pdfvars>>

(* .argindex, from its call to its return *)
ZargindexCall ==
  /\ op_pc = "zargindex"
  /\ called' = o_stack
  /\ LET done(r) == Returns(r.code, r.stack, "argindex")
     IN  done(zargindex(o_stack))
  /\ UNCHANGED pdfvars

(* no document is open while the stack operators are looked at *)
NoDocument ==
  MakeTrailer([R |-> 0, V |-> 0, Length |-> NoInt, EncryptMetadata |-> "absent",
               P |-> 0, O |-> <<>>, U |-> <<>>, OE |-> <<>>, UE |-> <<>>,
               Perms |-> <<>>], NoFilters)

(* the objects below the operands: names, all different *)
Data(len) == [p \in 1..len |-> make_name(p)]

(* what is on top of them: nothing, or one or two operands, each an        *)
(* integer or a name                                                       *)
CountOperands == {make_int(v) : v \in -1..(MaxData + 1)} \cup {make_name(0)}
RollOperands ==
  {make_int(v) : v \in -(MaxData + 2)..(MaxData + 2)} \cup {make_name(0)}
Operands ==
  {<<>>} \cup {<<a>> : a \in CountOperands}
         \cup {<<a, b>> : a \in CountOperands, b \in RollOperands}

InitStack ==
  /\ Trailer = NoDocument
  /\ systemdict = NoOptional
  /\ PDFPassword = Undefined
  /\ FileKey = Undefined
  /\ pc = "idle"
  /\ branch = "none"
  /\ error = ""
  /\ calls = <<>>
  /\ object = NoObject
  /\ stream = NoStream
  /\ derived = NoDerived
  /\ \E len \in 0..MaxData, ops \in Operands, room \in 0..MaxRoom :
       \E used \in 0..(len + Len(ops)) :
         o_stack = [refs |-> Data(len) \o ops, inblock |-> used, room |-> room,
                    requested |-> 0]
  /\ op_pc \in {"zroll", "zargindex"}
  /\ code = 0
  /\ locals = NoLocals
  /\ called = EmptyStack

NextStack == ZrollCall \/ ChainOuter \/ ChainInner \/ ZargindexCall

SpecStack == InitStack /\ [][NextStack]_vars

(* an operator that was called runs on until it returns *)
SpecStackFair == SpecStack /\ WF_vars(NextStack)

(***************************************************************************)
(* The properties of pdf_compute_encryption_key and pdf_key_length.        *)
(***************************************************************************)
(* steps 1 to 5 of Algorithm 3.2: the padded password, O, P and the first  *)
(* string of ID                                                            *)
HashedBase ==
  (PDFPassword.value \o getinterval(pdf_padding_string, 0, 32 - Len(PDFPassword.value)))
  \o Encrypt.O \o PBytes(Encrypt.P) \o Trailer.ID[1]

(* C22: the string hashed for the file key of revisions 2 to 4 ends with   *)
(* four bytes 255 exactly when R is 4 or more and EncryptMetadata is       *)
(* present and false; at R 2 and R 3 it never does.                        *)
C22_MetadataBytesFromR4 ==
  derived.known =>
    derived.hashed =
      HashedBase \o (IF Encrypt.R >= 4 /\ Encrypt.EncryptMetadata = "false"
                     THEN <<255, 255, 255, 255>> ELSE <<>>)

C22_Witness ==
  /\ derived.known /\ Encrypt.R = 3 /\ Encrypt.EncryptMetadata = "false"
  /\ derived.hashed = HashedBase

(* C23: the key pdf_compute_encryption_key returns is 5 bytes long when V  *)
(* is 1, whatever Length is, and otherwise Length / 8 bytes, or 5 without  *)
(* Length.                                                                 *)
C23_FileKeyLength ==
  derived.known =>
    Len(derived.key) = (IF Encrypt.V = 1 THEN 5
                        ELSE IF Encrypt.Length = NoInt THEN 5
                        ELSE Encrypt.Length \div 8)

C23_Witness ==
  /\ derived.known /\ Encrypt.V = 1 /\ Encrypt.Length = 128
  /\ Len(derived.key) = 5

(***************************************************************************)
(* The properties of roll and .argindex.                                   *)
(***************************************************************************)
(* roll has returned *)
RollReturned == op_pc = "returned" /\ locals.path \in RollPaths

(* the operands roll was called with *)
CalledCount == called.refs[Len(called.refs) - 1].value
CalledShift == called.refs[Len(called.refs)].value

(* C25: when roll succeeds with operands n and j, both operands are gone,  *)
(* the object at depth d < n is the one that was at depth (d + j) mod n of *)
(* the data, and the objects below the top n are as before, on every path. *)
C25_RollRotates ==
  (RollReturned /\ code = 0) =>
    /\ Len(o_stack.refs) = Len(called.refs) - 2
    /\ \A d \in 0..(Len(o_stack.refs) - 1) :
         o_stack.refs[Len(o_stack.refs) - d] =
           IF d < CalledCount
           THEN called.refs[Len(o_stack.refs) - ((d + CalledShift) % CalledCount)]
           ELSE called.refs[Len(o_stack.refs) - d]

C25_Witness ==
  /\ RollReturned /\ code = 0 /\ locals.path = "chain"
  /\ CalledCount = 5 /\ CalledShift = -7
  /\ o_stack.refs[Len(o_stack.refs)] = called.refs[Len(o_stack.refs) - 3]

(* C26: once the chain rotation of roll has begun, roll returns, with left *)
(* at 0 and every one of the count elements assigned exactly once.         *)
C26_ChainRotationEnds ==
  (op_pc = "chain_outer") ~>
    (/\ op_pc = "returned"
     /\ locals.path = "chain"
     /\ locals.left = 0
     /\ \A p \in 1..Len(called.refs) :
          locals.assigned[p] =
            IF p > Len(called.refs) - 2 - locals.count /\ p <= Len(called.refs) - 2
            THEN 1 ELSE 0)

C26_Witness ==
  /\ op_pc = "returned" /\ locals.path = "chain"
  /\ locals.count = 4 /\ locals.mod = 2 /\ locals.left = 0 /\ locals.i = 2
  /\ \A p \in 1..4 : locals.assigned[Len(called.refs) - 2 - 4 + p] = 1

(* C27: .argindex with an index n >= 0 and fewer than n + 1 objects below  *)
(* it returns stackunderflow; it returns rangecheck only for an index      *)
(* below 0.                                                                *)
C27_ArgindexUnderflow ==
  (op_pc = "returned" /\ locals.path = "argindex") =>
    /\ ( /\ Len(called.refs) >= 1
         /\ called.refs[Len(called.refs)].type = "integer"
         /\ called.refs[Len(called.refs)].value >= 0
         /\ Len(called.refs) - 1 < called.refs[Len(called.refs)].value + 1 )
       => code = gs_error_stackunderflow
    /\ code = gs_error_rangecheck =>
         /\ Len(called.refs) >= 1
         /\ called.refs[Len(called.refs)].type = "integer"
         /\ called.refs[Len(called.refs)].value < 0

C27_Witness ==
  /\ op_pc = "returned" /\ locals.path = "argindex"
  /\ called.inblock = 3 /\ Len(called.refs) = 5
  /\ called.refs[5] = make_int(5)
  /\ code = gs_error_stackunderflow

(* C30: when roll returns an error, the operand stack, its two operands    *)
(* included, is as it was when roll was called: the same refs, the same    *)
(* osp and the same room.  (A stackoverflow leaves its request for room.)  *)
C30_RollErrorLeavesStack ==
  (RollReturned /\ code # 0) =>
    /\ o_stack.refs = called.refs
    /\ o_stack.inblock = called.inblock
    /\ o_stack.room = called.room

C30_Witness ==
  /\ RollReturned /\ code = gs_error_stackoverflow /\ locals.path = "move_up"
  /\ CalledCount = 4 /\ o_stack.refs = called.refs /\ o_stack.requested = 2

====
